---- MODULE Spec2Model ----
(***************************************************************************)
(* A model of subsystems of rcutils:                                 *)
(*   - the fault-injection counter (src/src/testing/fault_injection.c and  *)
(*     the macros of include/rcutils/testing/fault_injection.h),           *)
(*   - the hash map (src/src/hash_map.c) on top of the array list          *)
(*     (src/src/array_list.c),                                             *)
(*   - the logger severity hierarchy of src/src/logging.c, which stores    *)
(*     its levels in such a hash map,                                      *)
(*   - the thread-local error state of src/src/error_handling.c,           *)
(*   - the char array, the uint8 array and the string map                  *)
(*     (src/src/char_array.c, uint8_array.c, string_map.c),                *)
(*   - the shared library handle (src/src/shared_library.c).               *)
(* Pointers are modelled as sequences of length <= 1: <<>> is NULL and     *)
(* <<x>> points to x.  C arrays are 0-based, TLA+ sequences 1-based: the   *)
(* element with C index i is element i + 1 of the sequence.                *)
(***************************************************************************)
EXTENDS Integers, Sequences, FiniteSets, TLC

VARIABLES
  \* ---- fault injection (fault_injection.c)
  g_rcutils_fault_injection_count, \* the process-wide atomic counter
  fi_pc,          \* per thread: position inside _rcutils_fault_injection_maybe_fail
  fi_current,     \* per thread: the local current_count
  fi_result,      \* per thread: <<>> or <<record of the last completed maybe_fail call>>
  epoch_set,      \* the value given to the last rcutils_fault_injection_set_count
  epoch_rets,     \* the calls that decremented the counter since that set_count
  fi_complete,    \* <<>> or <<record of the last is_test_complete call>>
  \* ---- RCUTILS_FAULT_INJECTION_TEST (fault_injection.h)
  sweep_pc,               \* position inside the macro's loop
  fault_injection_count,  \* the macro's local int
  num_sites,              \* the number of maybe_fail sites of the subject
  sweep_site,             \* the site the subject is at
  sweep_log,              \* per finished iteration: the count set and the site that failed
  \* ---- a hash map and its user (hash_map.c)
  hash_map,       \* the rcutils_hash_map_t under test (its impl)
  hm_last,        \* the last call made on hash_map and what it returned
  hm_stored,      \* per key: <<>> or <<the value of the last successful set not followed by an unset>>
  \* ---- logging (logging.c)
  g_rcutils_logging_initialized,
  g_rcutils_logging_severities_map_valid,
  g_rcutils_logging_default_logger_level,
  g_rcutils_logging_severities_map,
  g_rcutils_logging_allocator,
  g_rcutils_logging_output_handler,
  g_output_stream,
  g_colorized_output,
  g_num_log_msg_handlers,
  log_last,       \* the last logging call and what it returned
  \* ---- error state (error_handling.c), per thread-local storage slot
  gtls_rcutils_error_state,
  gtls_rcutils_error_string_is_formatted,
  gtls_rcutils_error_string,
  gtls_rcutils_error_is_set,
  err_last,       \* the last call of the error handling API and what it returned
  err_written,    \* per thread: <<>> or <<the arguments of its last set_error_state
                  \* that no reset_error of the thread followed>>
  \* ---- containers and the heap they allocate from
  heap,           \* the blocks allocated and not released
  char_array,     \* a rcutils_char_array_t (char_array.c)
  uint8_array,    \* a rcutils_uint8_array_t (uint8_array.c)
  buf_last,       \* the last call on char_array or uint8_array and what it returned
  array_list,     \* a rcutils_array_list_t (array_list.c)
  al_last,        \* the last call on array_list and what it returned
  string_map,     \* a rcutils_string_map_t (string_map.c)
  sm_last,        \* the last call on string_map and what it returned
  \* ---- a shared library and the dynamic linker (shared_library.c)
  shared_library, \* a rcutils_shared_library_t
  dl_open,        \* the handles the dynamic linker holds open
  sl_last,        \* the last call on shared_library and what it returned
  \* ---- a caller of the allocator (allocator.c)
  held,           \* the pointer the caller holds: NULL or a block
  ra_last         \* the last call the caller made and what it returned

faultVars == <<g_rcutils_fault_injection_count, fi_pc, fi_current, fi_result,
               epoch_set, epoch_rets, fi_complete>>
sweepVars == <<sweep_pc, fault_injection_count, num_sites, sweep_site, sweep_log>>
hashVars == <<hash_map, hm_last, hm_stored>>
logVars == <<g_rcutils_logging_initialized, g_rcutils_logging_severities_map_valid,
             g_rcutils_logging_default_logger_level, g_rcutils_logging_severities_map,
             g_rcutils_logging_allocator, g_rcutils_logging_output_handler,
             g_output_stream, g_colorized_output, g_num_log_msg_handlers, log_last>>
errVars == <<gtls_rcutils_error_state, gtls_rcutils_error_string_is_formatted,
             gtls_rcutils_error_string, gtls_rcutils_error_is_set, err_last, err_written>>
\* the variables of the subsystems that follow logging
bufVars == <<heap, char_array, uint8_array, buf_last>>
listVars == <<array_list, al_last>>
smapVars == <<string_map, sm_last>>
libVars == <<shared_library, dl_open, sl_last>>
allocVars == <<held, ra_last>>
extVars == <<errVars, bufVars, listVars, smapVars, libVars, allocVars>>
vars == <<faultVars, sweepVars, hashVars, logVars, extVars>>

NULL == <<>>

(***************************************************************************)
(* Bounds of the model.                                                    *)
(***************************************************************************)
NumThreads == 2
MaxCount == 2
MaxSites == 5
MaxKey == 4
MaxValue == 2
MaxEntries == 3
MaxInitialCapacity == 3
MaxLevelIndex == 5
MaxOverlength == 2
MaxLineNumber == 120
MaxBlocks == 3
MaxCapacity == 4
MaxBufferSize == 2

Threads == 1..NumThreads

(***************************************************************************)
(* Fault injection.                                                        *)
(***************************************************************************)
RCUTILS_FAULT_INJECTION_NEVER_FAIL == -1
RCUTILS_FAULT_INJECTION_FAIL_NOW == 0

\* atomic_compare_exchange_strong(object, expected, desired): one atomic step.
\* The result holds the success flag, the object's new value and the value
\* left in *expected.
AtomicCompareExchangePlainStore(object, expected, desired) ==
  [success |-> TRUE, object |-> desired, expected |-> expected]

\* a compare-exchange that leaves *expected alone when the exchange fails
AtomicCompareExchangeKeepingExpected(object, expected, desired) ==
  IF object = expected
    THEN [success |-> TRUE, object |-> desired, expected |-> expected]
    ELSE [success |-> FALSE, object |-> object, expected |-> expected]

rcutils_atomic_compare_exchange_strong(object, expected, desired) ==
  IF object = expected
    THEN [success |-> TRUE, object |-> desired, expected |-> expected]
    ELSE [success |-> FALSE, object |-> object, expected |-> object]

\* The early return of the loop of _rcutils_fault_injection_maybe_fail.
MaybeFailNeverFailsStrict(current_count) ==
  current_count < RCUTILS_FAULT_INJECTION_NEVER_FAIL

MaybeFailNeverFails(current_count) ==
  current_count <= RCUTILS_FAULT_INJECTION_NEVER_FAIL

\* The value a call returns once its compare-exchange succeeded.
MaybeFailReturnsDesired(current_count, desired_count) == desired_count

MaybeFailReturnValue(current_count, desired_count) == current_count

IsTestCompleteWhenNeverFail(count) == count <= RCUTILS_FAULT_INJECTION_NEVER_FAIL

IsTestComplete(count) == count > RCUTILS_FAULT_INJECTION_NEVER_FAIL

\* A completed call: the thread, the value returned, the counter right
\* before and right after the call's atomic access, and whether the call
\* returned early (without a successful compare-exchange).
CallRecord(t, ret, before, after, early) ==
  [thread |-> t, ret |-> ret, before |-> before, after |-> after, early |-> early]

rcutils_fault_injection_set_count(count) ==
  /\ g_rcutils_fault_injection_count' = count
  /\ epoch_set' = count
  /\ epoch_rets' = <<>>
  /\ UNCHANGED <<fi_pc, fi_current, fi_result, fi_complete>>

\* rcutils_fault_injection_get_count: one atomic load.
rcutils_fault_injection_get_count == g_rcutils_fault_injection_count

rcutils_fault_injection_is_test_complete(t) ==
  /\ fi_pc[t] = "idle"
  /\ fi_complete' = <<[count |-> g_rcutils_fault_injection_count,
                       result |-> IsTestComplete(rcutils_fault_injection_get_count)]>>
  /\ UNCHANGED <<g_rcutils_fault_injection_count, fi_pc, fi_current, fi_result,
                 epoch_set, epoch_rets>>

\* _rcutils_fault_injection_maybe_fail, first step: the atomic load of the
\* counter, followed by the loop's test of the local copy.
maybe_fail_load(t) ==
  /\ fi_pc[t] = "idle"
  /\ LET current_count == rcutils_fault_injection_get_count IN
     /\ IF MaybeFailNeverFails(current_count)
          THEN /\ fi_pc' = fi_pc
               /\ fi_current' = fi_current
               /\ fi_result' = [fi_result EXCEPT ![t] =
                    <<CallRecord(t, current_count, g_rcutils_fault_injection_count,
                                 g_rcutils_fault_injection_count, TRUE)>>]
          ELSE /\ fi_pc' = [fi_pc EXCEPT ![t] = "cas"]
               /\ fi_current' = [fi_current EXCEPT ![t] = current_count]
               /\ fi_result' = [fi_result EXCEPT ![t] = <<>>]
  /\ UNCHANGED <<g_rcutils_fault_injection_count, epoch_set, epoch_rets, fi_complete>>

\* _rcutils_fault_injection_maybe_fail, the loop body: one atomic
\* compare-exchange, then either the return or the next test of the loop.
maybe_fail_cas(t) ==
  /\ fi_pc[t] = "cas"
  /\ LET current_count == fi_current[t]
         desired_count == current_count - 1
         cas == rcutils_atomic_compare_exchange_strong(
                  g_rcutils_fault_injection_count, current_count, desired_count)
     IN
     /\ g_rcutils_fault_injection_count' = cas.object
     /\ fi_current' = [fi_current EXCEPT ![t] =
          IF cas.success \/ MaybeFailNeverFails(cas.expected) THEN 0 ELSE cas.expected]
     /\ IF cas.success
          THEN LET rec == CallRecord(t, MaybeFailReturnValue(current_count, desired_count),
                                     g_rcutils_fault_injection_count, cas.object, FALSE)
               IN /\ fi_pc' = [fi_pc EXCEPT ![t] = "idle"]
                  /\ fi_result' = [fi_result EXCEPT ![t] = <<rec>>]
                  /\ epoch_rets' = Append(epoch_rets, rec)
          ELSE IF MaybeFailNeverFails(cas.expected)
                 THEN /\ fi_pc' = [fi_pc EXCEPT ![t] = "idle"]
                      /\ fi_result' = [fi_result EXCEPT ![t] =
                           <<CallRecord(t, cas.expected, g_rcutils_fault_injection_count,
                                        cas.object, TRUE)>>]
                      /\ epoch_rets' = epoch_rets
                 ELSE /\ fi_pc' = fi_pc
                      /\ fi_result' = fi_result
                      /\ epoch_rets' = epoch_rets
  /\ UNCHANGED <<epoch_set, fi_complete>>

InitFaultVars ==
  /\ g_rcutils_fault_injection_count = RCUTILS_FAULT_INJECTION_NEVER_FAIL
  /\ fi_pc = [t \in Threads |-> "idle"]
  /\ fi_current = [t \in Threads |-> 0]
  /\ fi_result = [t \in Threads |-> <<>>]
  /\ epoch_set = RCUTILS_FAULT_INJECTION_NEVER_FAIL
  /\ epoch_rets = <<>>
  /\ fi_complete = <<>>

InitSweepVars ==
  /\ sweep_pc = "off"
  /\ fault_injection_count = 0
  /\ num_sites = 0
  /\ sweep_site = 0
  /\ sweep_log = <<>>

(***************************************************************************)
(* Return codes (rcutils_ret_t), as the functions below return them.        *)
(***************************************************************************)
RCUTILS_RET_OK == 0
RCUTILS_RET_ERROR == 2
RCUTILS_RET_BAD_ALLOC == 10
RCUTILS_RET_INVALID_ARGUMENT == 11
RCUTILS_RET_NOT_INITIALIZED == 13
RCUTILS_RET_NOT_FOUND == 14
RCUTILS_RET_HASH_MAP_NO_MORE_ENTRIES == 50
RCUTILS_RET_LOGGING_SEVERITY_MAP_INVALID == 40

(***************************************************************************)
(* size_t bit operations on naturals.                                      *)
(***************************************************************************)
RECURSIVE BitAnd(_, _)
BitAnd(a, b) ==
  IF a = 0 \/ b = 0 THEN 0
  ELSE (a % 2) * (b % 2) + 2 * BitAnd(a \div 2, b \div 2)

RECURSIVE BitOr(_, _)
BitOr(a, b) ==
  IF a = 0 THEN b
  ELSE IF b = 0 THEN a
  ELSE (IF a % 2 = 1 \/ b % 2 = 1 THEN 1 ELSE 0) + 2 * BitOr(a \div 2, b \div 2)

RECURSIVE ShiftRight(_, _)
ShiftRight(v, n) == IF n = 0 \/ v = 0 THEN 0 + v ELSE ShiftRight(v \div 2, n - 1)

(***************************************************************************)
(* memcpy(dst, src, n) on an array of elements: mem is the array, dst and  *)
(* src are C indexes into it, n the number of elements.  C leaves the      *)
(* result undefined when the two regions overlap; the model gives the two  *)
(* results a copy loop produces, the one that runs over ascending          *)
(* addresses and the one that runs over descending addresses.  The two     *)
(* agree whenever the regions do not overlap.                              *)
(***************************************************************************)
RECURSIVE CopyAscending(_, _, _, _, _)
CopyAscending(mem, dst, src, n, i) ==
  IF i >= n THEN mem
  ELSE CopyAscending([mem EXCEPT ![dst + i + 1] = mem[src + i + 1]], dst, src, n, i + 1)

RECURSIVE CopyDescending(_, _, _, _)
CopyDescending(mem, dst, src, i) ==
  IF i < 0 THEN mem
  ELSE CopyDescending([mem EXCEPT ![dst + i + 1] = mem[src + i + 1]], dst, src, i - 1)

MemcpyOrders == {"ascending", "descending"}

memcpy(mem, dst, src, n, order) ==
  IF order = "descending" THEN CopyDescending(mem, dst, src, n - 1)
  ELSE CopyAscending(mem, dst, src, n, 0)

(***************************************************************************)
(* Array list (array_list.c).  An rcutils_array_list_t is the record       *)
(* [impl, capacity, list]: impl = FALSE is the NULL impl, list holds the   *)
(* size elements in use.                                                   *)
(***************************************************************************)
rcutils_get_zero_initialized_array_list == [impl |-> FALSE, capacity |-> 0, list |-> <<>>]

rcutils_array_list_init(al, initial_capacity, alloc_ok) ==
  IF al.impl \/ 1 > initial_capacity
    THEN [ret |-> RCUTILS_RET_INVALID_ARGUMENT, array_list |-> al]
  ELSE IF ~alloc_ok
    THEN [ret |-> RCUTILS_RET_BAD_ALLOC, array_list |-> al]
  ELSE [ret |-> RCUTILS_RET_OK,
        array_list |-> [impl |-> TRUE, capacity |-> initial_capacity, list |-> <<>>]]

rcutils_array_list_increase_capacity(al, alloc_ok) ==
  IF ~alloc_ok
    THEN [ret |-> RCUTILS_RET_BAD_ALLOC, array_list |-> al]
    ELSE [ret |-> RCUTILS_RET_OK,
          array_list |-> [al EXCEPT !.capacity = 2 * al.capacity]]

rcutils_array_list_add(al, data, alloc_ok) ==
  IF ~al.impl
    THEN [ret |-> RCUTILS_RET_NOT_INITIALIZED, array_list |-> al]
  ELSE LET grown == IF Len(al.list) + 1 > al.capacity
                      THEN rcutils_array_list_increase_capacity(al, alloc_ok)
                      ELSE [ret |-> RCUTILS_RET_OK, array_list |-> al]
       IN IF grown.ret # RCUTILS_RET_OK
            THEN grown
            ELSE [ret |-> RCUTILS_RET_OK,
                  array_list |-> [grown.array_list EXCEPT !.list = Append(@, data)]]

rcutils_array_list_remove(al, index, order) ==
  IF ~al.impl THEN [ret |-> RCUTILS_RET_NOT_INITIALIZED, array_list |-> al]
  ELSE IF Len(al.list) <= index
    THEN [ret |-> RCUTILS_RET_INVALID_ARGUMENT, array_list |-> al]
  ELSE LET size == Len(al.list)
           copy_count == size - (index + 1)
           moved == IF copy_count > 0
                      THEN memcpy(al.list, index, index + 1, copy_count, order)
                      ELSE al.list
       IN [ret |-> RCUTILS_RET_OK,
           array_list |-> [al EXCEPT !.list = SubSeq(moved, 1, size - 1)]]

(***************************************************************************)
(* Hash map (hash_map.c).  An rcutils_hash_map_t is the record             *)
(* [impl, map, capacity, size, key_hashing_func]; impl = FALSE is the NULL *)
(* impl.  map is the array of buckets, each an array list of entries       *)
(* [hashed_key, key, value].  A key of the map is whatever key_size bytes  *)
(* hold, a value whatever data_size bytes hold; memcpy of all of them is   *)
(* the copy of the model's key or value.                                   *)
(***************************************************************************)
BUCKET_INITIAL_CAP == 2

\* The low bits of a size_t the model keeps of a hash.  Every map_index is
\* hash & (capacity - 1) with capacity <= SizeTModulus, so the bucket of a
\* key is exact; two keys that agree on these bits are still told apart by
\* key_cmp_func, as hash_map_find compares the keys of entries whose hashes
\* agree.
SizeTModulus == 65536

\* rcutils_hash_map_string_hash_func (djb2) on a string given as the
\* sequence of its character codes.
RECURSIVE Djb2(_, _, _)
Djb2(ckey_str, i, hash) ==
  IF i > Len(ckey_str) THEN hash
  ELSE Djb2(ckey_str, i + 1, ((hash * 32 + hash) + ckey_str[i]) % SizeTModulus)

rcutils_hash_map_string_hash_func(key_str) == Djb2(key_str, 1, 5381)

\* strcmp-style comparison: 0 iff the keys are equal.
rcutils_hash_map_string_cmp_func(val1, val2) == IF val1 = val2 THEN 0 ELSE 1

\* The hasher of the map under test: integer keys, with keys that share
\* their whole hash (1 and 2), keys that share a bucket at every capacity
\* the map reaches (1, 2, 3) and keys whose buckets separate as the map
\* grows (4 and 5).
TestKeyHashingFunc(key) ==
  CASE key = 1 -> 16
    [] key = 2 -> 16
    [] key = 3 -> 32
    [] key = 4 -> 5
    [] key = 5 -> 13
    [] OTHER -> 16 * key

KeyHashingFunc(hm, key) ==
  IF hm.key_hashing_func = "rcutils_hash_map_string_hash_func"
    THEN rcutils_hash_map_string_hash_func(key)
    ELSE TestKeyHashingFunc(key)

KeyCmpFunc(hm, val1, val2) == rcutils_hash_map_string_cmp_func(val1, val2)

rcutils_get_zero_initialized_hash_map ==
  [impl |-> FALSE, map |-> <<>>, capacity |-> 0, size |-> 0, key_hashing_func |-> ""]

hash_map_allocate_new_map(capacity) ==
  [i \in 1..capacity |-> rcutils_get_zero_initialized_array_list]

hash_map_insert_entry(map, bucket_index, entry, alloc_ok) ==
  LET \* added: what rcutils_array_list_add returned, if it was called
      Return(added) ==
        IF added.ret = RCUTILS_RET_OK
          THEN [ret |-> RCUTILS_RET_OK,
                map |-> [map EXCEPT ![bucket_index + 1] = added.array_list]]
          ELSE [ret |-> added.ret, map |-> map]
      \* inited: what rcutils_array_list_init returned for a bucket not yet
      \* initialized
      Add(inited) ==
        IF inited.ret = RCUTILS_RET_OK
          THEN Return(rcutils_array_list_add(inited.array_list, entry, alloc_ok))
          ELSE Return(inited)
      InitBucket(bucket) ==
        IF ~bucket.impl
          THEN Add(rcutils_array_list_init(bucket, BUCKET_INITIAL_CAP, alloc_ok))
          ELSE Add([ret |-> RCUTILS_RET_OK, array_list |-> bucket])
  IN InitBucket(map[bucket_index + 1])

\* The entries of a map in the order the loops of hash_map_check_and_grow_map
\* visit them: bucket by bucket, each bucket front to back.
RECURSIVE EntriesInOrder(_, _)
EntriesInOrder(map, map_index) ==
  IF map_index >= Len(map) THEN <<>>
  ELSE map[map_index + 1].list \o EntriesInOrder(map, map_index + 1)

RehashIndex(hashed_key, new_capacity) == hashed_key % new_capacity

RECURSIVE RehashInto(_, _, _, _)
RehashInto(new_map, entries, i, new_capacity) ==
  IF i > Len(entries) THEN new_map
  ELSE RehashInto(
         hash_map_insert_entry(new_map, RehashIndex(entries[i].hashed_key, new_capacity),
                               entries[i], TRUE).map,
         entries, i + 1, new_capacity)

\* size > capacity in place of the load factor
PastFullLoad(size, capacity) == size > capacity

\* size >= (size_t)(LOAD_FACTOR * (double)capacity), with LOAD_FACTOR 0.75
PastLoadFactor(size, capacity) == size >= (3 * capacity) \div 4

\* a failure to grow leaves an empty map in place of the old one
GrowDroppingOnFailure(hm, alloc_ok) ==
  IF PastLoadFactor(hm.size, hm.capacity)
    THEN IF ~alloc_ok
           THEN [ret |-> RCUTILS_RET_BAD_ALLOC, attempted |-> TRUE,
                 hash_map |-> [hm EXCEPT !.map = hash_map_allocate_new_map(hm.capacity)]]
           ELSE [ret |-> RCUTILS_RET_OK, attempted |-> TRUE,
                 hash_map |-> [hm EXCEPT
                   !.map = RehashInto(hash_map_allocate_new_map(2 * hm.capacity),
                                      EntriesInOrder(hm.map, 0), 1, 2 * hm.capacity),
                   !.capacity = 2 * hm.capacity]]
    ELSE [ret |-> RCUTILS_RET_OK, attempted |-> FALSE, hash_map |-> hm]

\* alloc_ok = FALSE: an allocation made while growing fails; the new map is
\* given up and the old one stays in place.  attempted tells whether the
\* load factor made the function start on a new map.
hash_map_check_and_grow_map(hm, alloc_ok) ==
  IF PastLoadFactor(hm.size, hm.capacity)
    THEN IF ~alloc_ok
           THEN [ret |-> RCUTILS_RET_BAD_ALLOC, attempted |-> TRUE, hash_map |-> hm]
           ELSE [ret |-> RCUTILS_RET_OK, attempted |-> TRUE,
                 hash_map |-> [hm EXCEPT
                   !.map = RehashInto(hash_map_allocate_new_map(2 * hm.capacity),
                                      EntriesInOrder(hm.map, 0), 1, 2 * hm.capacity),
                   !.capacity = 2 * hm.capacity]]
    ELSE [ret |-> RCUTILS_RET_OK, attempted |-> FALSE, hash_map |-> hm]

\* v--; v |= v >> 1; v |= v >> 2; ... v |= v >> 32; v++
RECURSIVE NextPowerOfTwoLoop(_, _)
NextPowerOfTwoLoop(v, shf) ==
  IF shf > 32 THEN v
  ELSE NextPowerOfTwoLoop(BitOr(v, ShiftRight(v, shf)), 2 * shf)

\* the value itself in place of the next power of two
KeepAsGiven(v) == v

next_power_of_two(v) ==
  LET AtLeastOne(r) == IF r > 1 THEN r ELSE 1
  IN AtLeastOne(NextPowerOfTwoLoop(v - 1, 1) + 1)

rcutils_hash_map_init(initial_capacity, key_hashing_func, alloc_ok) ==
  LET InitializedMap(capacity) ==
        [impl |-> TRUE, map |-> hash_map_allocate_new_map(capacity),
         capacity |-> capacity, size |-> 0, key_hashing_func |-> key_hashing_func]
  IN IF 1 > initial_capacity
       THEN [ret |-> RCUTILS_RET_INVALID_ARGUMENT,
             hash_map |-> rcutils_get_zero_initialized_hash_map]
     ELSE IF ~alloc_ok
       THEN [ret |-> RCUTILS_RET_BAD_ALLOC, hash_map |-> rcutils_get_zero_initialized_hash_map]
     ELSE [ret |-> RCUTILS_RET_OK,
           hash_map |-> InitializedMap(
             IF BitAnd(initial_capacity, initial_capacity - 1) # 0
               THEN next_power_of_two(initial_capacity)
               ELSE initial_capacity)]

\* The first C index i in 0..bucket_size-1 whose entry has the hash and the
\* key looked for, or bucket_size when there is none.
RECURSIVE FindInBucket(_, _, _, _, _)
FindInBucket(hm, list, key, key_hash, i) ==
  IF i >= Len(list) THEN i
  ELSE IF list[i + 1].hashed_key = key_hash /\ 0 = KeyCmpFunc(hm, list[i + 1].key, key)
    THEN i
  ELSE FindInBucket(hm, list, key, key_hash, i + 1)

\* What hash_map_find hands back: whether it found the key, and its out
\* parameters.
hash_map_find(hm, key) ==
  LET \* i: where the loop over the bucket stopped
      Return(list, key_hash, map_index, i) ==
        IF i < Len(list)
          THEN [found |-> TRUE, key_hash |-> key_hash, map_index |-> map_index,
                bucket_index |-> i, entry |-> <<list[i + 1]>>]
          ELSE [found |-> FALSE, key_hash |-> key_hash, map_index |-> map_index,
                bucket_index |-> 0, entry |-> NULL]
      InBucket(key_hash, map_index) ==
        IF ~hm.map[map_index + 1].impl
          THEN [found |-> FALSE, key_hash |-> key_hash, map_index |-> map_index,
                bucket_index |-> 0, entry |-> NULL]
          ELSE Return(hm.map[map_index + 1].list, key_hash, map_index,
                      FindInBucket(hm, hm.map[map_index + 1].list, key, key_hash, 0))
      WithHash(key_hash) == InBucket(key_hash, BitAnd(key_hash, hm.capacity - 1))
  IN WithHash(KeyHashingFunc(hm, key))

\* The allocations of one rcutils_hash_map_set call; alloc names the one
\* that fails, if it is made ("ok": none fails).
AllocOutcomes == {"ok", "entry", "key_value", "bucket", "grow"}

\* what a call that does not reach hash_map_check_and_grow_map tells of it
NotGrown == [attempted |-> FALSE, ret |-> RCUTILS_RET_OK]

\* grow: whether the call started to grow the map and what that returned,
\* which the function only logs
rcutils_hash_map_set(hm, key, value, alloc) ==
  LET \* The end of the function: a failure to grow is only logged.
      \* g: what hash_map_check_and_grow_map returned
      Logged(g) ==
        [ret |-> RCUTILS_RET_OK, hash_map |-> g.hash_map,
         grow |-> [attempted |-> g.attempted, ret |-> g.ret]]
      Grow(changed) == Logged(hash_map_check_and_grow_map(changed, alloc # "grow"))
      \* ins: what hash_map_insert_entry returned for the new entry
      Inserted(ins) ==
        IF ins.ret # RCUTILS_RET_OK
          THEN [ret |-> ins.ret, hash_map |-> hm, grow |-> NotGrown]
          ELSE Grow([hm EXCEPT !.map = ins.map, !.size = @ + 1])
      \* f: what hash_map_find returned for key
      Found(f) ==
        IF f.found
          \* memcpy(entry->value, value, data_size) on the existing entry
          THEN Grow([hm EXCEPT !.map[f.map_index + 1].list[f.bucket_index + 1].value = value])
        ELSE IF alloc = "entry" \/ alloc = "key_value"
          THEN [ret |-> RCUTILS_RET_BAD_ALLOC, hash_map |-> hm, grow |-> NotGrown]
        ELSE Inserted(
               hash_map_insert_entry(hm.map, BitAnd(f.key_hash, hm.capacity - 1),
                                     [hashed_key |-> f.key_hash, key |-> key, value |-> value],
                                     alloc # "bucket"))
  IN IF ~hm.impl THEN [ret |-> RCUTILS_RET_NOT_INITIALIZED, hash_map |-> hm, grow |-> NotGrown]
     ELSE Found(hash_map_find(hm, key))

rcutils_hash_map_unset(hm, key, order) ==
  LET \* removed: what rcutils_array_list_remove returned for the entry's bucket
      Removed(map_index, removed) ==
        IF removed.ret = RCUTILS_RET_OK
          THEN [ret |-> RCUTILS_RET_OK,
                hash_map |-> [hm EXCEPT !.map[map_index + 1] = removed.array_list,
                                        !.size = @ - 1]]
          ELSE [ret |-> RCUTILS_RET_OK, hash_map |-> hm]
      \* f: what hash_map_find returned for key
      Found(f) ==
        IF ~f.found THEN [ret |-> RCUTILS_RET_OK, hash_map |-> hm]
        ELSE Removed(f.map_index,
               rcutils_array_list_remove(hm.map[f.map_index + 1], f.bucket_index, order))
  IN IF ~hm.impl THEN [ret |-> RCUTILS_RET_NOT_INITIALIZED, hash_map |-> hm]
     ELSE IF hm.size = 0 THEN [ret |-> RCUTILS_RET_OK, hash_map |-> hm]
     ELSE Found(hash_map_find(hm, key))

\* With nothing in the map the function returns RCUTILS_RET_OK, which as a
\* bool is false.
rcutils_hash_map_key_exists(hm, key) ==
  IF ~hm.impl THEN FALSE
  ELSE IF hm.size = 0 THEN FALSE
  ELSE hash_map_find(hm, key).found

rcutils_hash_map_get(hm, key) ==
  LET \* f: what hash_map_find returned for key
      Found(f) ==
        IF f.found
          THEN [ret |-> RCUTILS_RET_OK, data |-> <<f.entry[1].value>>]
          ELSE [ret |-> RCUTILS_RET_NOT_FOUND, data |-> NULL]
  IN IF ~hm.impl THEN [ret |-> RCUTILS_RET_NOT_INITIALIZED, data |-> NULL]
     ELSE IF hm.size = 0 THEN [ret |-> RCUTILS_RET_NOT_FOUND, data |-> NULL]
     ELSE Found(hash_map_find(hm, key))

rcutils_hash_map_get_capacity(hm) ==
  IF ~hm.impl THEN [ret |-> RCUTILS_RET_NOT_INITIALIZED, capacity |-> 0]
  ELSE [ret |-> RCUTILS_RET_OK, capacity |-> hm.capacity]

rcutils_hash_map_get_size(hm) ==
  IF ~hm.impl THEN [ret |-> RCUTILS_RET_NOT_INITIALIZED, size |-> 0]
  ELSE [ret |-> RCUTILS_RET_OK, size |-> hm.size]

\* The for loop of rcutils_hash_map_get_next_key_and_data, from bucket
\* map_index and position bucket_index on.
RECURSIVE NextEntryFrom(_, _, _)
NextEntryFrom(hm, map_index, bucket_index) ==
  IF map_index >= hm.capacity
    THEN [ret |-> RCUTILS_RET_HASH_MAP_NO_MORE_ENTRIES, key |-> NULL, data |-> NULL]
  ELSE IF hm.map[map_index + 1].impl /\ bucket_index < Len(hm.map[map_index + 1].list)
    THEN [ret |-> RCUTILS_RET_OK,
          key |-> <<hm.map[map_index + 1].list[bucket_index + 1].key>>,
          data |-> <<hm.map[map_index + 1].list[bucket_index + 1].value>>]
  ELSE NextEntryFrom(hm, map_index + 1, 0)

\* previous_key: NULL or <<key>>
rcutils_hash_map_get_next_key_and_data(hm, previous_key) ==
  LET \* f: what hash_map_find returned for previous_key; bucket_index++, the
      \* search starts right after the previous key
      Found(f) ==
        IF ~f.found
          THEN [ret |-> RCUTILS_RET_NOT_FOUND, key |-> NULL, data |-> NULL]
          ELSE NextEntryFrom(hm, f.map_index, f.bucket_index + 1)
  IN IF ~hm.impl THEN [ret |-> RCUTILS_RET_NOT_INITIALIZED, key |-> NULL, data |-> NULL]
     ELSE IF hm.size = 0
       THEN IF previous_key # NULL
              THEN [ret |-> RCUTILS_RET_NOT_FOUND, key |-> NULL, data |-> NULL]
              ELSE [ret |-> RCUTILS_RET_HASH_MAP_NO_MORE_ENTRIES, key |-> NULL, data |-> NULL]
     ELSE IF previous_key # NULL
       THEN Found(hash_map_find(hm, previous_key[1]))
     ELSE NextEntryFrom(hm, 0, 0)

\* hash_map_deallocate_map and the release of the impl
rcutils_hash_map_fini(hm) ==
  IF ~hm.impl THEN [ret |-> RCUTILS_RET_NOT_INITIALIZED, hash_map |-> hm]
  ELSE [ret |-> RCUTILS_RET_OK, hash_map |-> rcutils_get_zero_initialized_hash_map]

\* Some bucket holds the same entry pointer twice: the state an overlapping
\* memcpy in rcutils_array_list_remove can leave behind.  From then on a
\* write through one pointer shows through the other and releasing one
\* leaves the other dangling.
HasAliasedEntries(hm) ==
  \E b \in DOMAIN hm.map :
    \E i, j \in DOMAIN hm.map[b].list : i # j /\ hm.map[b].list[i] = hm.map[b].list[j]

(***************************************************************************)
(* The calls a user makes on one hash map.  hm_last records the last call  *)
(* and what it returned; for an unset, existed is the set of keys that     *)
(* key_exists reported right before the call; for an init, data is the     *)
(* initial capacity asked for; for a set, grow tells                       *)
(* whether the call started to grow the map and what that returned.        *)
(***************************************************************************)
Keys == 1..MaxKey
Values == 1..MaxValue

ExistingKeys(hm) == {k \in Keys : rcutils_hash_map_key_exists(hm, k)}

CallOnMap(op, key, ret, data, existed) ==
  [op |-> op, key |-> key, ret |-> ret, data |-> data, existed |-> existed, grow |-> NotGrown]

InitHashVars ==
  /\ hash_map = rcutils_get_zero_initialized_hash_map
  /\ hm_last = CallOnMap("none", 0, RCUTILS_RET_OK, NULL, {})
  /\ hm_stored = [k \in Keys |-> NULL]

\* The loop a user iterates with:
\*   ret = get_next_key_and_data(map, NULL, &key, &data);
\*   while (RCUTILS_RET_OK == ret) { ...; ret = get_next_key_and_data(map, &key, &key, &data); }
\* cut off after calls_left calls.  The result is the keys of the successful
\* calls, in order, and the return code of the last call made.
RECURSIVE IterateFrom(_, _, _, _)
IterateFrom(hm, previous_key, visited, calls_left) ==
  LET \* r: what rcutils_hash_map_get_next_key_and_data returned
      Step(r) ==
        IF r.ret # RCUTILS_RET_OK THEN [keys |-> visited, ret |-> r.ret]
        ELSE IF calls_left = 1 THEN [keys |-> Append(visited, r.key[1]), ret |-> r.ret]
        ELSE IterateFrom(hm, r.key, Append(visited, r.key[1]), calls_left - 1)
  IN Step(rcutils_hash_map_get_next_key_and_data(hm, previous_key))

\* enough calls for every key twice over
MaxCalls == 2 * MaxKey + 2

(***************************************************************************)
(* SpecHashMap: one user works on one hash map.  Writing through or        *)
(* releasing an entry that a bucket holds twice is a use of aliased or     *)
(* freed memory; the model stops changing such a map and keeps reading it. *)
(* In each action r is what the call returned.                             *)
(***************************************************************************)
MapInit == \E initial_capacity \in 0..MaxInitialCapacity, alloc_ok \in BOOLEAN :
  LET Returns(r) ==
        /\ hash_map' = r.hash_map
        /\ hm_last' = CallOnMap("init", 0, r.ret, <<initial_capacity>>, {})
        /\ hm_stored' = [k \in Keys |-> NULL]
  IN /\ ~hash_map.impl
     /\ Returns(rcutils_hash_map_init(initial_capacity, "test_key_hashing_func", alloc_ok))
     /\ UNCHANGED <<faultVars, sweepVars, logVars, extVars>>

MapSet == \E key \in Keys, value \in Values, alloc \in AllocOutcomes :
  LET Returns(r) ==
        /\ r.hash_map.size <= MaxEntries
        /\ hash_map' = r.hash_map
        /\ hm_last' = [CallOnMap("set", key, r.ret, <<value>>, {}) EXCEPT !.grow = r.grow]
        /\ hm_stored' = IF r.ret = RCUTILS_RET_OK
                          THEN [hm_stored EXCEPT ![key] = <<value>>]
                          ELSE hm_stored
  IN /\ ~HasAliasedEntries(hash_map)
     /\ Returns(rcutils_hash_map_set(hash_map, key, value, alloc))
     /\ UNCHANGED <<faultVars, sweepVars, logVars, extVars>>

MapUnset == \E key \in Keys, order \in MemcpyOrders :
  LET Returns(r) ==
        /\ hash_map' = r.hash_map
        /\ hm_last' = CallOnMap("unset", key, r.ret, NULL, ExistingKeys(hash_map))
        /\ hm_stored' = IF r.ret = RCUTILS_RET_OK
                          THEN [hm_stored EXCEPT ![key] = NULL]
                          ELSE hm_stored
  IN /\ ~HasAliasedEntries(hash_map)
     /\ Returns(rcutils_hash_map_unset(hash_map, key, order))
     /\ UNCHANGED <<faultVars, sweepVars, logVars, extVars>>

MapGet == \E key \in Keys :
  LET Returns(r) == hm_last' = CallOnMap("get", key, r.ret, r.data, {})
  IN /\ Returns(rcutils_hash_map_get(hash_map, key))
     /\ UNCHANGED <<hash_map, hm_stored, faultVars, sweepVars, logVars, extVars>>

MapKeyExists == \E key \in Keys :
  /\ hm_last' = CallOnMap("key_exists", key, RCUTILS_RET_OK,
                          <<rcutils_hash_map_key_exists(hash_map, key)>>, {})
  /\ UNCHANGED <<hash_map, hm_stored, faultVars, sweepVars, logVars, extVars>>

MapIterate ==
  LET Returns(it) == hm_last' = CallOnMap("iterate", 0, it.ret, it.keys, {})
  IN /\ hash_map.impl
     /\ Returns(IterateFrom(hash_map, NULL, <<>>, MaxCalls))
     /\ UNCHANGED <<hash_map, hm_stored, faultVars, sweepVars, logVars, extVars>>

MapFini ==
  LET Returns(r) ==
        /\ hash_map' = r.hash_map
        /\ hm_last' = CallOnMap("fini", 0, r.ret, NULL, {})
        /\ hm_stored' = [k \in Keys |-> NULL]
  IN /\ ~HasAliasedEntries(hash_map)
     /\ Returns(rcutils_hash_map_fini(hash_map))
     /\ UNCHANGED <<faultVars, sweepVars, logVars, extVars>>

(***************************************************************************)
(* Logging (logging.c): the severity levels of named loggers.  A logger    *)
(* name is a C string, here the sequence of its character codes.  The      *)
(* operators below work on the record                                      *)
(*   [initialized, map_valid, default_level, map]                          *)
(* of the globals g_rcutils_logging_initialized,                           *)
(* g_rcutils_logging_severities_map_valid,                                 *)
(* g_rcutils_logging_default_logger_level and                              *)
(* g_rcutils_logging_severities_map.                                       *)
(***************************************************************************)
RCUTILS_LOG_SEVERITY_UNSET == 0
RCUTILS_LOG_SEVERITY_DEBUG == 10
RCUTILS_LOG_SEVERITY_INFO == 20
RCUTILS_LOG_SEVERITY_WARN == 30
RCUTILS_LOG_SEVERITY_ERROR == 40
RCUTILS_LOG_SEVERITY_FATAL == 50
RCUTILS_DEFAULT_LOGGER_DEFAULT_LEVEL == RCUTILS_LOG_SEVERITY_INFO

\* '.'
RCUTILS_LOGGING_SEPARATOR_CHAR == 46

\* The entries of g_rcutils_log_severity_names that are not NULL.
g_rcutils_log_severity_names ==
  [level \in {RCUTILS_LOG_SEVERITY_UNSET, RCUTILS_LOG_SEVERITY_DEBUG,
              RCUTILS_LOG_SEVERITY_INFO, RCUTILS_LOG_SEVERITY_WARN,
              RCUTILS_LOG_SEVERITY_ERROR, RCUTILS_LOG_SEVERITY_FATAL} |->
     CASE level = RCUTILS_LOG_SEVERITY_UNSET -> "UNSET"
       [] level = RCUTILS_LOG_SEVERITY_DEBUG -> "DEBUG"
       [] level = RCUTILS_LOG_SEVERITY_INFO -> "INFO"
       [] level = RCUTILS_LOG_SEVERITY_WARN -> "WARN"
       [] level = RCUTILS_LOG_SEVERITY_ERROR -> "ERROR"
       [] OTHER -> "FATAL"]

SIZE_MAX == SizeTModulus - 1

\* The index of the last delimiter among the first string_length characters
\* of str, or SIZE_MAX: the loop from string_length - 1 down to 1, then
\* str[0].
RECURSIVE FindLastLoop(_, _, _)
FindLastLoop(str, delimiter, i) ==
  IF i > 0
    THEN IF str[i + 1] = delimiter THEN i ELSE FindLastLoop(str, delimiter, i - 1)
    ELSE IF str[1] = delimiter THEN 0 ELSE SIZE_MAX

\* A search that returns the first delimiter instead of the last.
RECURSIVE FindFirstLoop(_, _, _, _)
FindFirstLoop(str, delimiter, i, string_length) ==
  IF i >= string_length THEN SIZE_MAX
  ELSE IF str[i + 1] = delimiter THEN i
  ELSE FindFirstLoop(str, delimiter, i + 1, string_length)

FindFirstn(str, delimiter, string_length) ==
  IF 0 = string_length THEN SIZE_MAX ELSE FindFirstLoop(str, delimiter, 0, string_length)

rcutils_find_lastn(str, delimiter, string_length) ==
  IF 0 = string_length THEN SIZE_MAX ELSE FindLastLoop(str, delimiter, string_length - 1)

\* How a call of rcutils_logging_initialize_with_allocator can go.
\* How a call of rcutils_logging_initialize_with_allocator goes is by
\* how: the allocator passed, the values of the environment variables
\* RCUTILS_LOGGING_USE_STDOUT, RCUTILS_LOGGING_BUFFERED_STREAM and
\* RCUTILS_COLORIZED_OUTPUT ("" when not set), whether setvbuf succeeds and
\* whether the allocations of the severities map do.
\* RCUTILS_CONSOLE_STDOUT_LINE_BUFFERED and RCUTILS_CONSOLE_OUTPUT_FORMAT
\* are not set.
DefaultInit ==
  [allocator |-> "rcutils_get_default_allocator", use_stdout |-> "", buffered_stream |-> "",
   colorized_output |-> "", setvbuf_ok |-> TRUE, alloc_ok |-> TRUE]

\* The outcomes told apart where the environment is not looked at closer:
\* all goes well, an environment variable has a value that is not
\* understood, the severities map cannot be allocated.
InitOutcomes ==
  {DefaultInit, [DefaultInit EXCEPT !.use_stdout = "2"], [DefaultInit EXCEPT !.alloc_ok = FALSE]}

\* rcutils_get_env_var_zero_or_one on a variable with this value
rcutils_get_env_var_zero_or_one(env_var_value) ==
  IF env_var_value = "" THEN "RCUTILS_GET_ENV_EMPTY"
  ELSE IF env_var_value = "0" THEN "RCUTILS_GET_ENV_ZERO"
  ELSE IF env_var_value = "1" THEN "RCUTILS_GET_ENV_ONE"
  ELSE "RCUTILS_GET_ENV_ERROR"

\* g_num_log_msg_handlers after parse_and_create_handlers_list on the
\* default output format "[{severity}] [{time}] [{name}]: {message}": four
\* tokens and the four stretches of text before them.
DefaultFormatHandlers == 8

\* rcutils_logging_initialize_with_allocator behind its check of
\* g_rcutils_logging_initialized.
InitializeUninitialized(ls, how) ==
  LET \* r: what rcutils_hash_map_init returned for the severities map
      MapReturns(with_env, r) ==
        IF r.ret # RCUTILS_RET_OK
          THEN [ret |-> RCUTILS_RET_ERROR,
                ls |-> [with_env EXCEPT !.map = r.hash_map, !.map_valid = FALSE]]
          ELSE [ret |-> RCUTILS_RET_OK,
                ls |-> [with_env EXCEPT !.map = r.hash_map, !.map_valid = TRUE,
                                        !.num_log_msg_handlers = DefaultFormatHandlers,
                                        !.initialized = TRUE]]
      \* The function from RCUTILS_COLORIZED_OUTPUT on.
      FromColorized(with_stream, retval) ==
        IF retval = "RCUTILS_GET_ENV_ERROR"
          THEN [ret |-> RCUTILS_RET_INVALID_ARGUMENT, ls |-> with_stream]
          ELSE MapReturns(
                 [with_stream EXCEPT !.colorized_output =
                    IF retval = "RCUTILS_GET_ENV_EMPTY" THEN "RCUTILS_COLORIZED_OUTPUT_AUTO"
                    ELSE IF retval = "RCUTILS_GET_ENV_ZERO"
                      THEN "RCUTILS_COLORIZED_OUTPUT_FORCE_DISABLE"
                    ELSE "RCUTILS_COLORIZED_OUTPUT_FORCE_ENABLE"],
                 rcutils_hash_map_init(2, "rcutils_hash_map_string_hash_func", how.alloc_ok))
      \* The function from RCUTILS_LOGGING_BUFFERED_STREAM on.
      FromBuffered(with_stream, retval) ==
        IF retval = "RCUTILS_GET_ENV_ERROR"
          THEN [ret |-> RCUTILS_RET_INVALID_ARGUMENT, ls |-> with_stream]
        ELSE IF retval \in {"RCUTILS_GET_ENV_ZERO", "RCUTILS_GET_ENV_ONE"} /\ ~how.setvbuf_ok
          THEN [ret |-> RCUTILS_RET_ERROR, ls |-> with_stream]
        ELSE FromColorized(with_stream, rcutils_get_env_var_zero_or_one(how.colorized_output))
      \* The function from RCUTILS_LOGGING_USE_STDOUT on.
      FromUseStdout(with_default, retval) ==
        IF retval = "RCUTILS_GET_ENV_ERROR"
          THEN [ret |-> RCUTILS_RET_INVALID_ARGUMENT, ls |-> with_default]
          ELSE FromBuffered(
                 [with_default EXCEPT !.output_stream =
                    IF retval = "RCUTILS_GET_ENV_ONE" THEN <<"stdout">> ELSE <<"stderr">>],
                 rcutils_get_env_var_zero_or_one(how.buffered_stream))
  IN IF how.allocator = "invalid"
       THEN [ret |-> RCUTILS_RET_INVALID_ARGUMENT, ls |-> ls]
       ELSE FromUseStdout(
              [ls EXCEPT !.allocator = how.allocator,
                         !.output_handler = <<"rcutils_logging_console_output_handler">>,
                         !.default_level = RCUTILS_DEFAULT_LOGGER_DEFAULT_LEVEL],
              rcutils_get_env_var_zero_or_one(how.use_stdout))

\* rcutils_logging_initialize_with_allocator that initializes whenever called.
InitializeAgain(ls, how) == InitializeUninitialized(ls, how)
rcutils_logging_initialize_with_allocator(ls, how) ==
  IF ls.initialized THEN [ret |-> RCUTILS_RET_OK, ls |-> ls]
  ELSE InitializeUninitialized(ls, how)

\* RCUTILS_LOGGING_AUTOINIT
RCUTILS_LOGGING_AUTOINIT(ls, outcome) ==
  IF ~ls.initialized THEN rcutils_logging_initialize_with_allocator(ls, outcome).ls ELSE ls

\* ls: the globals after RCUTILS_LOGGING_AUTOINIT
rcutils_logging_get_default_logger_level(ls) == ls.default_level

\* ls: the globals after RCUTILS_LOGGING_AUTOINIT
rcutils_logging_set_default_logger_level(ls, level) ==
  [ls EXCEPT !.default_level = IF RCUTILS_LOG_SEVERITY_UNSET = level
                                 THEN RCUTILS_DEFAULT_LOGGER_DEFAULT_LEVEL
                                 ELSE level]

\* a variant of add_key_to_hash_map that stores the level as it is given
AddKeyWithoutMarker(map, name, level, set_by_user, alloc) ==
  IF ~rcutils_hash_map_key_exists(map, name) /\ alloc = "strdup"
    THEN [ret |-> RCUTILS_RET_ERROR, map |-> map]
  ELSE IF rcutils_hash_map_set(map, name, level, alloc).ret # RCUTILS_RET_OK
    THEN [ret |-> RCUTILS_RET_ERROR, map |-> rcutils_hash_map_set(map, name, level, alloc).hash_map]
  ELSE [ret |-> RCUTILS_RET_OK, map |-> rcutils_hash_map_set(map, name, level, alloc).hash_map]

\* alloc: "strdup" fails the copy of the name, the others are the
\* allocations of rcutils_hash_map_set.
add_key_to_hash_map(map, name, level, set_by_user, alloc) ==
  LET \* r: what rcutils_hash_map_set returned
      Returns(r) ==
        IF r.ret # RCUTILS_RET_OK
          THEN [ret |-> RCUTILS_RET_ERROR, map |-> r.hash_map]
          ELSE [ret |-> RCUTILS_RET_OK, map |-> r.hash_map]
  IN IF ~rcutils_hash_map_key_exists(map, name) /\ alloc = "strdup"
       THEN [ret |-> RCUTILS_RET_ERROR, map |-> map]
       ELSE Returns(rcutils_hash_map_set(map, name,
                                         IF set_by_user THEN BitOr(level, 1) ELSE level,
                                         alloc))

\* A reader that leaves the marker bit in.
SeverityWithMarker(value) == value

\* (*severity) &= ~(0x1)
SeverityOf(value) == value - (value % 2)

\* severity: the value the caller's int holds before the call; it is left
\* alone when the lookup fails.
get_severity_level(map, name, severity) ==
  LET \* r: what rcutils_hash_map_get returned
      Returns(r) ==
        IF r.ret # RCUTILS_RET_OK
          THEN [ret |-> r.ret, severity |-> severity]
          ELSE [ret |-> RCUTILS_RET_OK, severity |-> SeverityOf(r.data[1])]
  IN Returns(rcutils_hash_map_get(map, name))

\* The while (true) loop of rcutils_logging_get_logger_effective_level.
\* tmp_name is name cut at the last separator found, that is the first
\* index_last_separator characters of name.
RECURSIVE AncestorLoop(_, _, _, _)
AncestorLoop(map, name, substring_length, severity) ==
  LET \* r: what get_severity_level returned for tmp_name
      Found(index_last_separator, r) ==
        IF r.ret = RCUTILS_RET_OK
          THEN IF r.severity # RCUTILS_LOG_SEVERITY_UNSET
                 THEN [error |-> FALSE, severity |-> r.severity]
                 ELSE AncestorLoop(map, name, index_last_separator, r.severity)
        ELSE IF r.ret # RCUTILS_RET_NOT_FOUND
          THEN [error |-> TRUE, severity |-> severity]
        ELSE AncestorLoop(map, name, index_last_separator, severity)
      At(index_last_separator) ==
        IF SIZE_MAX = index_last_separator THEN [error |-> FALSE, severity |-> severity]
        ELSE Found(index_last_separator,
               get_severity_level(map, SubSeq(name, 1, index_last_separator), severity))
  IN At(rcutils_find_lastn(name, RCUTILS_LOGGING_SEPARATOR_CHAR, substring_length))

\* ls: the globals after RCUTILS_LOGGING_AUTOINIT; alloc_ok = FALSE: the copy
\* of the name that the walk over the ancestors works on cannot be allocated
rcutils_logging_get_logger_effective_level(ls, name, alloc_ok) ==
  LET \* walk: how the loop over the ancestors ended
      AfterWalk(walk) ==
        IF walk.error THEN -1
        ELSE IF walk.severity = RCUTILS_LOG_SEVERITY_UNSET THEN ls.default_level
        ELSE walk.severity
      \* r: what get_severity_level returned for name itself
      AfterLookup(r) ==
        IF r.ret = RCUTILS_RET_OK /\ r.severity # RCUTILS_LOG_SEVERITY_UNSET
          THEN r.severity
        ELSE IF r.ret # RCUTILS_RET_OK /\ r.ret # RCUTILS_RET_NOT_FOUND THEN -1
        ELSE IF ~alloc_ok THEN -1
        ELSE AfterWalk(AncestorLoop(ls.map, name, Len(name), RCUTILS_LOG_SEVERITY_UNSET))
      \* size: what rcutils_hash_map_get_size returned
      WithSize(size) ==
        IF size.ret # RCUTILS_RET_OK THEN -1
        ELSE IF size.size = 0 THEN ls.default_level
        ELSE AfterLookup(get_severity_level(ls.map, name, RCUTILS_LOG_SEVERITY_UNSET))
  IN WithSize(rcutils_hash_map_get_size(ls.map))

\* strncmp(name, key, name_length) == 0
NamePrefixOf(name, key) ==
  Len(key) >= Len(name) /\ SubSeq(key, 1, Len(name)) = name

\* The entry of key is held twice by its bucket: rcutils_hash_map_unset
\* releases it through one of the pointers and leaves the other dangling.
EntryIsAliased(map, key) ==
  LET \* f: what hash_map_find returns for the key
      IsAliased(f) ==
        f.found /\ \E i \in DOMAIN map.map[f.map_index + 1].list :
          i # f.bucket_index + 1 /\ map.map[f.map_index + 1].list[i] = f.entry[1]
  IN IsAliased(hash_map_find(map, key))

\* if (key != NULL && strncmp(name, key, name_length) == 0) { ... }
FreeCurrentKey(name, key, tmp_level) ==
  /\ NamePrefixOf(name, key)
  /\ \/ Len(key) = Len(name)
     \/ BitAnd(tmp_level, 1) = 0

\* The while loop of rcutils_logging_set_logger_level, entered with the
\* key and level the previous rcutils_hash_map_get_next_key_and_data gave.
\* end is "done" when the loop ends; "undefined" when it is about to
\* release an entry that its bucket holds twice, after which the map is
\* read through a dangling pointer; "hang" when it never ends.  seen holds
\* the keys the loop went through since it last changed the map: the key
\* that follows a key depends on the map and that key alone, so a loop
\* that comes to a key of seen goes round forever.
RECURSIVE SweepLoop(_, _, _, _, _, _)
SweepLoop(map, name, key, tmp_level, order, seen) ==
  LET \* unset: what rcutils_hash_map_unset returned, if it was called
      Unset(next, unset) ==
        IF unset.ret # RCUTILS_RET_OK
          THEN [end |-> "done", ret |-> unset.ret, map |-> unset.hash_map]
        ELSE IF next.ret = RCUTILS_RET_OK
          THEN SweepLoop(unset.hash_map, name, next.key[1], next.data[1], order,
                         IF unset.hash_map = map THEN seen \cup {key} ELSE {})
        ELSE [end |-> "done", ret |-> RCUTILS_RET_OK, map |-> unset.hash_map]
      \* next: what rcutils_hash_map_get_next_key_and_data returned after key
      AfterNext(free_current_key, next) ==
        IF next.ret \notin {RCUTILS_RET_OK, RCUTILS_RET_HASH_MAP_NO_MORE_ENTRIES,
                            RCUTILS_RET_NOT_FOUND}
          THEN [end |-> "done", ret |-> next.ret, map |-> map]
        ELSE IF free_current_key /\ EntryIsAliased(map, key)
          THEN [end |-> "undefined", ret |-> RCUTILS_RET_OK, map |-> map]
        ELSE Unset(next,
               IF free_current_key
                 THEN rcutils_hash_map_unset(map, key, order)
                 ELSE [ret |-> RCUTILS_RET_OK, hash_map |-> map])
  IN IF key \in seen THEN [end |-> "hang", ret |-> RCUTILS_RET_OK, map |-> map]
     ELSE AfterNext(FreeCurrentKey(name, key, tmp_level),
                    rcutils_hash_map_get_next_key_and_data(map, <<key>>))

\* level >= 0 and below the length of g_rcutils_log_severity_names, and the
\* name at that index is not NULL
IsValidSeverity(level) == level \in DOMAIN g_rcutils_log_severity_names

\* ls: the globals after RCUTILS_LOGGING_AUTOINIT
rcutils_logging_set_logger_level(ls, name, level, order, alloc) ==
  LET \* added: what add_key_to_hash_map returned
      Added(added) ==
        [end |-> "done", ret |-> added.ret,
         ls |-> [ls EXCEPT !.map = added.map,
                           !.default_level = IF Len(name) = 0 THEN level ELSE @]]
      \* swept: how the loop over the keys of the map ended
      Swept(swept) ==
        IF swept.end # "done" \/ swept.ret # RCUTILS_RET_OK
          THEN [end |-> swept.end, ret |-> swept.ret, ls |-> [ls EXCEPT !.map = swept.map]]
          ELSE Added(add_key_to_hash_map(swept.map, name, level, TRUE, alloc))
      \* first: what rcutils_hash_map_get_next_key_and_data returned for a
      \* NULL previous key
      Sweep(first) ==
        IF first.ret = RCUTILS_RET_OK
          THEN Swept(SweepLoop(ls.map, name, first.key[1], first.data[1], order, {}))
          ELSE Swept([end |-> "done", ret |-> RCUTILS_RET_OK, map |-> ls.map])
  IN IF ~ls.map_valid
       THEN [end |-> "done", ret |-> RCUTILS_RET_LOGGING_SEVERITY_MAP_INVALID, ls |-> ls]
     ELSE IF ~IsValidSeverity(level)
       THEN [end |-> "done", ret |-> RCUTILS_RET_INVALID_ARGUMENT, ls |-> ls]
     ELSE IF rcutils_hash_map_key_exists(ls.map, name)
       THEN Sweep(rcutils_hash_map_get_next_key_and_data(ls.map, NULL))
     ELSE Swept([end |-> "done", ret |-> RCUTILS_RET_OK, map |-> ls.map])

\* The loop of rcutils_logging_shutdown that empties the map: the first key
\* of the map is unset until there is none.
RECURSIVE ShutdownLoop(_, _)
ShutdownLoop(map, order) ==
  LET \* first: what rcutils_hash_map_get_next_key_and_data returned for a
      \* NULL previous key
      First(first) ==
        IF first.ret # RCUTILS_RET_OK THEN [end |-> "done", map |-> map]
        ELSE IF EntryIsAliased(map, first.key[1]) THEN [end |-> "undefined", map |-> map]
        ELSE ShutdownLoop(rcutils_hash_map_unset(map, first.key[1], order).hash_map, order)
  IN First(rcutils_hash_map_get_next_key_and_data(map, NULL))

rcutils_logging_shutdown(ls, order) ==
  LET \* fini: what rcutils_hash_map_fini returned
      Fini(fini) ==
        [end |-> "done",
         ret |-> IF fini.ret # RCUTILS_RET_OK
                   THEN RCUTILS_RET_LOGGING_SEVERITY_MAP_INVALID
                   ELSE RCUTILS_RET_OK,
         ls |-> [ls EXCEPT !.map = fini.hash_map, !.map_valid = FALSE,
                           !.num_log_msg_handlers = 0, !.initialized = FALSE]]
      \* emptied: how the loop that empties the map ended
      Emptied(emptied) ==
        IF emptied.end # "done"
          THEN [end |-> emptied.end, ret |-> RCUTILS_RET_OK,
                ls |-> [ls EXCEPT !.map = emptied.map]]
          ELSE Fini(rcutils_hash_map_fini(emptied.map))
  IN IF ~ls.initialized THEN [end |-> "done", ret |-> RCUTILS_RET_OK, ls |-> ls]
     ELSE IF ~ls.map_valid
       THEN [end |-> "done", ret |-> RCUTILS_RET_OK,
             ls |-> [ls EXCEPT !.num_log_msg_handlers = 0, !.initialized = FALSE]]
     ELSE Emptied(ShutdownLoop(ls.map, order))

(***************************************************************************)
(* The logging calls of a single-threaded user.  log_last records the last *)
(* call: its result and how it ended ("done": it returned; "hang": it      *)
(* loops forever; "undefined": it went on to use released memory).  After  *)
(* a call that did not return no further call is made.                     *)
(***************************************************************************)
LoggingGlobals ==
  [initialized |-> g_rcutils_logging_initialized,
   map_valid |-> g_rcutils_logging_severities_map_valid,
   default_level |-> g_rcutils_logging_default_logger_level,
   map |-> g_rcutils_logging_severities_map,
   allocator |-> g_rcutils_logging_allocator,
   output_handler |-> g_rcutils_logging_output_handler,
   output_stream |-> g_output_stream,
   colorized_output |-> g_colorized_output,
   num_log_msg_handlers |-> g_num_log_msg_handlers]

SetLoggingGlobals(ls) ==
  /\ g_rcutils_logging_initialized' = ls.initialized
  /\ g_rcutils_logging_severities_map_valid' = ls.map_valid
  /\ g_rcutils_logging_default_logger_level' = ls.default_level
  /\ g_rcutils_logging_severities_map' = ls.map
  /\ g_rcutils_logging_allocator' = ls.allocator
  /\ g_rcutils_logging_output_handler' = ls.output_handler
  /\ g_output_stream' = ls.output_stream
  /\ g_colorized_output' = ls.colorized_output
  /\ g_num_log_msg_handlers' = ls.num_log_msg_handlers

LoggingCall(op, name, level, ret, end) ==
  [op |-> op, name |-> name, level |-> level, ret |-> ret, end |-> end, how |-> <<>>]

InitLogVars ==
  /\ g_rcutils_logging_initialized = FALSE
  /\ g_rcutils_logging_severities_map_valid = FALSE
  /\ g_rcutils_logging_default_logger_level = 0
  /\ g_rcutils_logging_severities_map = rcutils_get_zero_initialized_hash_map
  /\ g_rcutils_logging_allocator = "zero initialized"
  /\ g_rcutils_logging_output_handler = NULL
  /\ g_output_stream = NULL
  /\ g_colorized_output = "RCUTILS_COLORIZED_OUTPUT_AUTO"
  /\ g_num_log_msg_handlers = 0
  /\ log_last = LoggingCall("none", <<>>, 0, RCUTILS_RET_OK, "done")

\* The outcomes the initialization inside a call can have: none is needed
\* once logging is initialized.
AutoinitOutcomes == IF g_rcutils_logging_initialized THEN {DefaultInit} ELSE InitOutcomes

\* The copy orders that can differ on this map: only a bucket of three or
\* more entries has a removal that moves two or more of them.
OrdersOn(map) ==
  IF \E b \in DOMAIN map.map : Len(map.map[b].list) >= 3
    THEN MemcpyOrders ELSE {"ascending"}

\* In each action r is what the call returned and ls the globals after
\* RCUTILS_LOGGING_AUTOINIT.
\* The record of the call tells in how the allocator and the environment
\* it was made with.
InitializeOf(hows) == \E how \in hows :
  LET Returns(r) ==
        /\ SetLoggingGlobals(r.ls)
        /\ log_last' = [LoggingCall("initialize", <<>>, 0, r.ret, "done") EXCEPT !.how = how]
  IN /\ log_last.end = "done"
     /\ Returns(rcutils_logging_initialize_with_allocator(LoggingGlobals, how))
     /\ UNCHANGED <<faultVars, sweepVars, hashVars, extVars>>

LogInitialize == InitializeOf(InitOutcomes)

LogShutdown == \E order \in OrdersOn(g_rcutils_logging_severities_map) :
  LET Returns(r) ==
        /\ SetLoggingGlobals(r.ls)
        /\ log_last' = LoggingCall("shutdown", <<>>, 0, r.ret, r.end)
  IN /\ log_last.end = "done"
     /\ Returns(rcutils_logging_shutdown(LoggingGlobals, order))
     /\ UNCHANGED <<faultVars, sweepVars, hashVars, extVars>>

LogSetDefault ==
  \E level \in {RCUTILS_LOG_SEVERITY_UNSET, RCUTILS_LOG_SEVERITY_DEBUG},
     outcome \in AutoinitOutcomes :
    /\ log_last.end = "done"
    /\ SetLoggingGlobals(rcutils_logging_set_default_logger_level(
         RCUTILS_LOGGING_AUTOINIT(LoggingGlobals, outcome), level))
    /\ log_last' = LoggingCall("set_default_logger_level", <<>>, level, RCUTILS_RET_OK, "done")
    /\ UNCHANGED <<faultVars, sweepVars, hashVars, extVars>>

SetLevelOf(names, levels, allocs) ==
  \E name \in names, level \in levels,
     order \in OrdersOn(g_rcutils_logging_severities_map),
     outcome \in AutoinitOutcomes :
    \E alloc \in allocs :
      LET Returns(r) ==
            /\ SetLoggingGlobals(r.ls)
            /\ log_last' = LoggingCall("set_logger_level", name, level, r.ret, r.end)
      IN /\ log_last.end = "done"
         /\ Returns(rcutils_logging_set_logger_level(
              RCUTILS_LOGGING_AUTOINIT(LoggingGlobals, outcome), name, level, order, alloc))
         /\ UNCHANGED <<faultVars, sweepVars, hashVars, extVars>>

\* The record of the call tells in ret whether the allocation of the call,
\* if it made one, went well.
GetEffectiveOf(names) ==
  \E name \in names, outcome \in AutoinitOutcomes, alloc_ok \in BOOLEAN :
    LET Returns(ls) ==
          /\ SetLoggingGlobals(ls)
          /\ log_last' = LoggingCall("get_logger_effective_level", name,
                             rcutils_logging_get_logger_effective_level(ls, name, alloc_ok),
                             IF alloc_ok THEN RCUTILS_RET_OK ELSE RCUTILS_RET_BAD_ALLOC,
                             "done")
    IN /\ log_last.end = "done"
       /\ Returns(RCUTILS_LOGGING_AUTOINIT(LoggingGlobals, outcome))
       /\ UNCHANGED <<faultVars, sweepVars, hashVars, extVars>>

(***************************************************************************)
(* Error state (src/src/error_handling.c, error_handling_helpers.h).       *)
(* A C string is the sequence of its characters before the terminator.     *)
(***************************************************************************)
RCUTILS_ERROR_STATE_LINE_NUMBER_STR_MAX_LENGTH == 20
RCUTILS_ERROR_FORMATTING_CHARACTERS == 6
RCUTILS_ERROR_MESSAGE_MAX_LENGTH == 1024
RCUTILS_ERROR_STATE_MESSAGE_MAX_LENGTH == 768
RCUTILS_ERROR_STATE_FILE_MAX_LENGTH ==
  RCUTILS_ERROR_MESSAGE_MAX_LENGTH - RCUTILS_ERROR_STATE_MESSAGE_MAX_LENGTH
    - RCUTILS_ERROR_STATE_LINE_NUMBER_STR_MAX_LENGTH - RCUTILS_ERROR_FORMATTING_CHARACTERS - 1

\* One storage for all threads, as an ordinary global would be.
ProcessGlobal(t) == 1
\* The storage a thread reaches through a RCUTILS_THREAD_LOCAL variable: its own.
RCUTILS_THREAD_LOCAL(t) == t

\* __rcutils_copy_string: what dst holds afterwards
rcutils_copy_string(dst_size, src) ==
  SubSeq(src, 1, IF Len(src) >= dst_size THEN dst_size - 1 ELSE Len(src))

\* The while loop of __rcutils_convert_uint64_t_into_c_str: the digits of
\* number, the lowest first.
RECURSIVE ConvertLoop(_)
ConvertLoop(number) ==
  IF number = 0 THEN <<>> ELSE <<(number % 10) + 48>> \o ConvertLoop(number \div 10)

\* __rcutils_convert_uint64_t_into_c_str with __rcutils_reverse_str
rcutils_convert_uint64_t_into_c_str(number) ==
  LET reverse_str(string_in) ==
        [i \in 1..Len(string_in) |-> string_in[Len(string_in) + 1 - i]]
  IN IF number = 0 THEN <<48>> ELSE reverse_str(ConvertLoop(number))

\* __rcutils_format_error_string: the str of error_string afterwards
rcutils_format_error_string(error_state) ==
  LET format_1 == <<44, 32, 97, 116, 32>>   \* ", at "
      format_2 == <<58>>                    \* ":"
      \* written: what is in str so far; src: what is copied behind it into
      \* the bytes that are left
      Append1(written, src) ==
        written \o rcutils_copy_string(RCUTILS_ERROR_MESSAGE_MAX_LENGTH - Len(written), src)
  IN Append1(Append1(Append1(Append1(Append1(<<>>, error_state.message), format_1),
                             error_state.file), format_2),
             rcutils_convert_uint64_t_into_c_str(error_state.line_number))

\* The thread-local variables of thread t as one record, and their assignment.
ErrorTls(t) ==
  [error_state |-> gtls_rcutils_error_state[RCUTILS_THREAD_LOCAL(t)],
   error_string_is_formatted |-> gtls_rcutils_error_string_is_formatted[RCUTILS_THREAD_LOCAL(t)],
   error_string |-> gtls_rcutils_error_string[RCUTILS_THREAD_LOCAL(t)],
   error_is_set |-> gtls_rcutils_error_is_set[RCUTILS_THREAD_LOCAL(t)]]

SetErrorTls(t, tls) ==
  /\ gtls_rcutils_error_state' =
       [gtls_rcutils_error_state EXCEPT ![RCUTILS_THREAD_LOCAL(t)] = tls.error_state]
  /\ gtls_rcutils_error_string_is_formatted' =
       [gtls_rcutils_error_string_is_formatted EXCEPT
          ![RCUTILS_THREAD_LOCAL(t)] = tls.error_string_is_formatted]
  /\ gtls_rcutils_error_string' =
       [gtls_rcutils_error_string EXCEPT ![RCUTILS_THREAD_LOCAL(t)] = tls.error_string]
  /\ gtls_rcutils_error_is_set' =
       [gtls_rcutils_error_is_set EXCEPT ![RCUTILS_THREAD_LOCAL(t)] = tls.error_is_set]

\* rcutils_set_error_state without the reset of the formatted string.
SetErrorStateKeepsString(tls, error_string, file, line_number) ==
  IF error_string = NULL \/ file = NULL THEN tls
  ELSE [tls EXCEPT
          !.error_state =
            [message |-> rcutils_copy_string(RCUTILS_ERROR_STATE_MESSAGE_MAX_LENGTH, error_string[1]),
             file |-> rcutils_copy_string(RCUTILS_ERROR_STATE_FILE_MAX_LENGTH, file[1]),
             line_number |-> line_number],
          !.error_is_set = TRUE]
\* error_string, file: NULL or <<the string>>.  The result is the
\* thread-local storage afterwards.
rcutils_set_error_state(tls, error_string, file, line_number) ==
  IF error_string = NULL \/ file = NULL THEN tls
  ELSE [error_state |->
          [message |-> rcutils_copy_string(RCUTILS_ERROR_STATE_MESSAGE_MAX_LENGTH, error_string[1]),
           file |-> rcutils_copy_string(RCUTILS_ERROR_STATE_FILE_MAX_LENGTH, file[1]),
           line_number |-> line_number],
        error_string_is_formatted |-> FALSE,
        error_string |-> <<>>,
        error_is_set |-> TRUE]

rcutils_error_is_set(tls) == tls.error_is_set

rcutils_get_error_state(tls) == tls.error_state

\* "error not set"
ErrorNotSet == <<101, 114, 114, 111, 114, 32, 110, 111, 116, 32, 115, 101, 116>>

\* The result is the string returned (str) and the storage afterwards (tls).
rcutils_get_error_string(tls) ==
  LET Formatted(string) ==
        [str |-> string,
         tls |-> [tls EXCEPT !.error_string = string, !.error_string_is_formatted = TRUE]]
  IN IF ~tls.error_is_set THEN [str |-> ErrorNotSet, tls |-> tls]
     ELSE IF ~tls.error_string_is_formatted
       THEN Formatted(rcutils_format_error_string(tls.error_state))
     ELSE [str |-> tls.error_string, tls |-> tls]

rcutils_reset_error(tls) ==
  [error_state |-> [message |-> <<>>, file |-> <<>>, line_number |-> 0],
   error_string_is_formatted |-> FALSE,
   error_string |-> <<>>,
   error_is_set |-> FALSE]

(***************************************************************************)
(* SpecError: threads set, read and reset their error state.               *)
(***************************************************************************)
\* The messages the threads set: two short ones, and one that does not fit
\* into the message of an error state.
ErrorMessages ==
  {<<101>>, <<102, 103>>, [i \in 1..(RCUTILS_ERROR_STATE_MESSAGE_MAX_LENGTH + MaxOverlength) |-> 120]}
ErrorFiles == {<<97, 46, 99>>}
ErrorLines == {0, MaxLineNumber}

InitErrVars ==
  /\ gtls_rcutils_error_state = [s \in Threads |-> [message |-> <<>>, file |-> <<>>, line_number |-> 0]]
  /\ gtls_rcutils_error_string_is_formatted = [s \in Threads |-> FALSE]
  /\ gtls_rcutils_error_string = [s \in Threads |-> <<>>]
  /\ gtls_rcutils_error_is_set = [s \in Threads |-> FALSE]
  /\ err_last = [thread |-> 0, op |-> "none", str |-> <<>>]
  /\ err_written = [t \in Threads |-> <<>>]


(***************************************************************************)
(* The heap.  A block is named by a number in 1..MaxBlocks and heap tells  *)
(* of each whether it is "free" (never handed out), "allocated" or         *)
(* "released"; a released block is not handed out again, so a pointer to   *)
(* it keeps dangling.  Block 0 is storage of the caller, which no          *)
(* allocator hands out.                                                    *)
(***************************************************************************)
\* allocator->allocate: ok = FALSE, or no free block, makes it return NULL
allocate(h, ok) ==
  LET Free == {b \in DOMAIN h : h[b] = "free"}
  IN IF ~ok \/ Free = {} THEN [pointer |-> NULL, heap |-> h]
     ELSE [pointer |-> <<CHOOSE b \in Free : \A c \in Free : b <= c>>,
           heap |-> [h EXCEPT ![CHOOSE b \in Free : \A c \in Free : b <= c] = "allocated"]]

\* allocator->deallocate; releasing NULL does nothing
deallocate(h, pointer) ==
  IF pointer = NULL THEN h ELSE [h EXCEPT ![pointer[1]] = "released"]

\* a variant of rcutils_reallocf that is allocator->reallocate alone: the
\* block stays allocated when the reallocation fails
ReallocKeepingOnFailure(h, pointer, allocator, outcome) ==
  IF allocator # "valid" \/ outcome = "fail" THEN [pointer |-> NULL, heap |-> h]
  ELSE IF outcome = "in place" /\ pointer # NULL THEN [pointer |-> pointer, heap |-> h]
  ELSE IF allocate(h, TRUE).pointer = NULL THEN [pointer |-> NULL, heap |-> h]
  ELSE [pointer |-> allocate(h, TRUE).pointer,
        heap |-> deallocate(allocate(h, TRUE).heap, pointer)]

\* rcutils_reallocf(pointer, size, allocator).  outcome tells how
\* allocator->reallocate goes: "fail" (it returns NULL and leaves the block
\* alone), "in place" (it returns pointer) or "moved" (it returns another
\* block and releases the one of pointer).
rcutils_reallocf(h, pointer, allocator, outcome) ==
  LET \* r: what allocator->allocate gave for the block to move to
      Moved(r) ==
        IF r.pointer = NULL
          THEN [pointer |-> NULL, heap |-> deallocate(h, pointer)]
          ELSE [pointer |-> r.pointer, heap |-> deallocate(r.heap, pointer)]
  IN IF allocator # "valid" THEN [pointer |-> NULL, heap |-> h]
     ELSE IF outcome = "fail"
       THEN [pointer |-> NULL, heap |-> deallocate(h, pointer)]
     ELSE IF outcome = "in place" /\ pointer # NULL THEN [pointer |-> pointer, heap |-> h]
     ELSE Moved(allocate(h, TRUE))

(***************************************************************************)
(* Char array (src/src/char_array.c).  The results are the return code,    *)
(* the array and the heap afterwards.  bytes is what the buffer holds:     *)
(* buffer[i] of the code is bytes[i + 1], a character code, 0 for the      *)
(* terminating '\0', or -1 for a byte nothing was written to.              *)
(***************************************************************************)
rcutils_get_zero_initialized_char_array ==
  [buffer |-> NULL, owns_buffer |-> TRUE, buffer_length |-> 0, buffer_capacity |-> 0,
   allocator |-> "zero initialized", bytes |-> <<>>]

\* the bytes of a block of size bytes that starts with the bytes of kept
Block(size, kept) == [i \in 1..size |-> IF i <= Len(kept) THEN kept[i] ELSE -1]

rcutils_char_array_init(h, ca, buffer_capacity, allocator, alloc_ok) ==
  LET \* r: what allocator->allocate returned
      Allocated(r) ==
        IF r.pointer = NULL
          THEN [ret |-> RCUTILS_RET_BAD_ALLOC, heap |-> r.heap,
                char_array |-> [buffer |-> NULL, owns_buffer |-> TRUE, buffer_length |-> 0,
                                buffer_capacity |-> 0, allocator |-> allocator,
                                bytes |-> <<>>]]
          ELSE [ret |-> RCUTILS_RET_OK, heap |-> r.heap,
                char_array |-> [buffer |-> r.pointer, owns_buffer |-> TRUE, buffer_length |-> 0,
                                buffer_capacity |-> buffer_capacity, allocator |-> allocator,
                                bytes |-> Block(buffer_capacity, <<0>>)]]
  IN IF allocator # "valid" THEN [ret |-> RCUTILS_RET_ERROR, heap |-> h, char_array |-> ca]
     ELSE IF buffer_capacity > 0 THEN Allocated(allocate(h, alloc_ok))
     ELSE [ret |-> RCUTILS_RET_OK, heap |-> h,
           char_array |-> [ca EXCEPT !.owns_buffer = TRUE, !.buffer_length = 0,
                                     !.buffer_capacity = 0, !.allocator = allocator]]

\* outcome: how the reallocation, or for a buffer the array does not own
\* the allocation ("fail" or not), goes
rcutils_char_array_resize(h, ca, new_size, outcome) ==
  LET MIN(a, b) == IF a < b THEN a ELSE b
      Resized(with_buffer, heap_after) ==
        [ret |-> RCUTILS_RET_OK, heap |-> heap_after,
         char_array |-> [with_buffer EXCEPT !.buffer_capacity = new_size,
                                            !.buffer_length = MIN(new_size, ca.buffer_length)]]
      \* r: what rcutils_reallocf returned; the block it returns holds the
      \* bytes of the old one as far as both reach
      Reallocated(r) ==
        IF r.pointer = NULL
          THEN [ret |-> RCUTILS_RET_BAD_ALLOC, heap |-> r.heap, char_array |-> ca]
          ELSE Resized([ca EXCEPT !.buffer = r.pointer,
                                  !.bytes = Block(new_size,
                                                  SubSeq(@, 1, MIN(new_size, Len(@))))],
                       r.heap)
      \* the new buffer after memcpy(buffer, old_buf, n) and
      \* buffer[n - 1] = '\0'; with n = 0 that byte lies before the buffer
      Copied(n) ==
        [i \in 1..new_size |-> IF i = n THEN 0
                               ELSE IF i < n THEN ca.bytes[i]
                               ELSE -1]
      \* r: what rcutils_char_array_init returned
      Initialized(r) ==
        IF r.ret # RCUTILS_RET_OK THEN r
        ELSE Resized([r.char_array EXCEPT !.bytes = Copied(MIN(new_size, ca.buffer_capacity))],
                     r.heap)
  IN IF 0 = new_size
       THEN [ret |-> RCUTILS_RET_INVALID_ARGUMENT, heap |-> h, char_array |-> ca]
     ELSE IF ca.allocator # "valid"
       THEN [ret |-> RCUTILS_RET_ERROR, heap |-> h, char_array |-> ca]
     ELSE IF new_size = ca.buffer_capacity
       THEN [ret |-> RCUTILS_RET_OK, heap |-> h, char_array |-> ca]
     ELSE IF ca.owns_buffer
       THEN Reallocated(rcutils_reallocf(h, ca.buffer, ca.allocator, outcome))
     ELSE Initialized(rcutils_char_array_init(h, ca, new_size, ca.allocator, outcome # "fail"))

\* a variant of rcutils_char_array_expand_as_needed that grows by half the
\* capacity whatever size is asked for
ExpandByHalfOnly(h, ca, new_size, outcome) ==
  IF new_size <= ca.buffer_capacity
    THEN [ret |-> RCUTILS_RET_OK, heap |-> h, char_array |-> ca]
    ELSE rcutils_char_array_resize(h, ca, ca.buffer_capacity + (ca.buffer_capacity \div 2),
                                   outcome)

rcutils_char_array_expand_as_needed(h, ca, new_size, outcome) ==
  LET minimum_size == ca.buffer_capacity + (ca.buffer_capacity \div 2)
  IN IF new_size <= ca.buffer_capacity
       THEN [ret |-> RCUTILS_RET_OK, heap |-> h, char_array |-> ca]
       ELSE rcutils_char_array_resize(
              h, ca, IF new_size < minimum_size THEN minimum_size ELSE new_size, outcome)

\* a variant of rcutils_char_array_strncat that takes buffer_length for
\* the length of the string the buffer holds
StrncatAfterTerminator(h, ca, src, n, outcome) ==
  LET current_strlen == ca.buffer_length
      new_length == current_strlen + n + 1
      Expanded(r) ==
        IF r.ret # RCUTILS_RET_OK THEN r
        ELSE [r EXCEPT !.char_array.bytes =
                         [i \in DOMAIN @ |->
                            IF i = new_length THEN 0
                            ELSE IF i > current_strlen /\ i <= current_strlen + n
                              THEN src[i - current_strlen]
                            ELSE @[i]],
                       !.char_array.buffer_length = new_length]
  IN Expanded(rcutils_char_array_expand_as_needed(h, ca, new_length, outcome))

\* src: the characters of the string, n of which are appended
rcutils_char_array_strncat(h, ca, src, n, outcome) ==
  LET current_strlen == IF ca.buffer_length = 0 THEN 0 ELSE ca.buffer_length - 1
      new_length == current_strlen + n + 1
      \* r: what rcutils_char_array_expand_as_needed returned
      Expanded(r) ==
        IF r.ret # RCUTILS_RET_OK THEN r
        ELSE [r EXCEPT !.char_array.bytes =
                         [i \in DOMAIN @ |->
                            IF i = new_length THEN 0
                            ELSE IF i > current_strlen /\ i <= current_strlen + n
                              THEN src[i - current_strlen]
                            ELSE @[i]],
                       !.char_array.buffer_length = new_length]
  IN Expanded(rcutils_char_array_expand_as_needed(h, ca, new_length, outcome))

\* strlen(src) is Len(src): src holds the characters before the '\0'
rcutils_char_array_strcat(h, ca, src, outcome) ==
  rcutils_char_array_strncat(h, ca, src, Len(src), outcome)

rcutils_char_array_fini(h, ca) ==
  IF ca.owns_buffer /\ ca.allocator # "valid"
    THEN [ret |-> RCUTILS_RET_ERROR, heap |-> h, char_array |-> ca]
    ELSE [ret |-> RCUTILS_RET_OK,
          heap |-> IF ca.owns_buffer THEN deallocate(h, ca.buffer) ELSE h,
          char_array |-> [ca EXCEPT !.buffer = NULL, !.buffer_length = 0,
                                    !.buffer_capacity = 0, !.bytes = <<>>]]

(***************************************************************************)
(* Uint8 array (src/src/uint8_array.c).                                    *)
(***************************************************************************)
rcutils_get_zero_initialized_uint8_array ==
  [buffer |-> NULL, buffer_length |-> 0, buffer_capacity |-> 0, allocator |-> "zero initialized"]

rcutils_uint8_array_init(h, ua, buffer_capacity, allocator, alloc_ok) ==
  LET \* r: what allocator->allocate returned
      Allocated(r) ==
        IF r.pointer = NULL
          THEN [ret |-> RCUTILS_RET_BAD_ALLOC, heap |-> r.heap,
                uint8_array |-> [buffer |-> NULL, buffer_length |-> 0, buffer_capacity |-> 0,
                                 allocator |-> allocator]]
          ELSE [ret |-> RCUTILS_RET_OK, heap |-> r.heap,
                uint8_array |-> [buffer |-> r.pointer, buffer_length |-> 0,
                                 buffer_capacity |-> buffer_capacity, allocator |-> allocator]]
  IN IF allocator # "valid"
       THEN [ret |-> RCUTILS_RET_INVALID_ARGUMENT, heap |-> h, uint8_array |-> ua]
     ELSE IF buffer_capacity > 0 THEN Allocated(allocate(h, alloc_ok))
     ELSE [ret |-> RCUTILS_RET_OK, heap |-> h,
           uint8_array |-> [ua EXCEPT !.buffer_length = 0, !.buffer_capacity = 0,
                                      !.allocator = allocator]]

rcutils_uint8_array_resize(h, ua, new_size, outcome) ==
  LET \* r: what rcutils_reallocf returned
      Reallocated(r) ==
        IF r.pointer = NULL
          THEN [ret |-> RCUTILS_RET_BAD_ALLOC, heap |-> r.heap,
                uint8_array |-> [ua EXCEPT !.buffer = NULL, !.buffer_capacity = 0,
                                           !.buffer_length = 0]]
          ELSE [ret |-> RCUTILS_RET_OK, heap |-> r.heap,
                uint8_array |-> [ua EXCEPT !.buffer = r.pointer, !.buffer_capacity = new_size,
                                           !.buffer_length =
                                             IF new_size < @ THEN new_size ELSE @]]
  IN IF 0 = new_size
       THEN [ret |-> RCUTILS_RET_INVALID_ARGUMENT, heap |-> h, uint8_array |-> ua]
     ELSE IF ua.allocator # "valid"
       THEN [ret |-> RCUTILS_RET_INVALID_ARGUMENT, heap |-> h, uint8_array |-> ua]
     ELSE IF new_size = ua.buffer_capacity
       THEN [ret |-> RCUTILS_RET_OK, heap |-> h, uint8_array |-> ua]
     ELSE Reallocated(rcutils_reallocf(h, ua.buffer, ua.allocator, outcome))

rcutils_uint8_array_fini(h, ua) ==
  IF ua.allocator # "valid"
    THEN [ret |-> RCUTILS_RET_INVALID_ARGUMENT, heap |-> h, uint8_array |-> ua]
    ELSE [ret |-> RCUTILS_RET_OK, heap |-> deallocate(h, ua.buffer),
          uint8_array |-> [ua EXCEPT !.buffer = NULL, !.buffer_length = 0,
                                     !.buffer_capacity = 0]]

(***************************************************************************)
(* Array list (src/src/array_list.c): its fini.                            *)
(***************************************************************************)
rcutils_array_list_fini(al) ==
  IF ~al.impl THEN [ret |-> RCUTILS_RET_NOT_INITIALIZED, array_list |-> al]
  ELSE [ret |-> RCUTILS_RET_OK, array_list |-> rcutils_get_zero_initialized_array_list]

(***************************************************************************)
(* String map (src/src/string_map.c).  An rcutils_string_map_t is the      *)
(* record [impl, key_value_pairs, capacity, size]: impl = FALSE is the     *)
(* NULL impl, key_value_pairs is the array of capacity slots, a slot is a  *)
(* key_value_pair_t [key, value] whose key is NULL when the slot is free.  *)
(* Slot i of the code is key_value_pairs[i + 1].                           *)
(***************************************************************************)
RCUTILS_RET_NOT_ENOUGH_SPACE == 12
RCUTILS_RET_STRING_MAP_ALREADY_INIT == 30
RCUTILS_RET_STRING_MAP_INVALID == 31
RCUTILS_RET_STRING_KEY_NOT_FOUND == 32

rcutils_get_zero_initialized_string_map ==
  [impl |-> FALSE, key_value_pairs |-> <<>>, capacity |-> 0, size |-> 0]

\* The index of the first slot whose key is key, or -1 when
\* __get_index_of_key_if_exists returns false.
__get_index_of_key_if_exists(sm, key) ==
  LET Matches == {i \in 0..(sm.capacity - 1) : sm.key_value_pairs[i + 1].key = <<key>>}
  IN IF Matches = {} THEN -1 ELSE CHOOSE i \in Matches : \A j \in Matches : i <= j

__remove_key_and_value_at_index(sm, index) ==
  [sm EXCEPT !.key_value_pairs[index + 1] = [key |-> NULL, value |-> NULL],
             !.size = @ - 1]

\* realloc_ok: whether allocator.reallocate returns memory, if it is called
RECURSIVE rcutils_string_map_reserve(_, _, _)
rcutils_string_map_reserve(sm, capacity, realloc_ok) ==
  IF ~sm.impl THEN [ret |-> RCUTILS_RET_STRING_MAP_INVALID, string_map |-> sm]
  ELSE IF capacity < sm.size THEN rcutils_string_map_reserve(sm, sm.size, realloc_ok)
  ELSE IF capacity = sm.capacity THEN [ret |-> RCUTILS_RET_OK, string_map |-> sm]
  ELSE IF capacity = 0
    THEN [ret |-> RCUTILS_RET_OK,
          string_map |-> [sm EXCEPT !.key_value_pairs = <<>>, !.capacity = 0]]
  ELSE IF ~realloc_ok THEN [ret |-> RCUTILS_RET_BAD_ALLOC, string_map |-> sm]
  ELSE [ret |-> RCUTILS_RET_OK,
        string_map |->
          [sm EXCEPT !.key_value_pairs =
                       [i \in 1..capacity |->
                          IF i <= sm.capacity THEN sm.key_value_pairs[i]
                          ELSE [key |-> NULL, value |-> NULL]],
                     !.capacity = capacity]]

\* alloc names the allocation that fails, if it is made: "impl" or "reserve"
rcutils_string_map_init(sm, initial_capacity, allocator, alloc) ==
  LET \* r: what rcutils_string_map_reserve returned
      Reserved(r) ==
        IF r.ret # RCUTILS_RET_OK THEN [ret |-> r.ret, string_map |-> sm] ELSE r
  IN IF sm.impl THEN [ret |-> RCUTILS_RET_STRING_MAP_ALREADY_INIT, string_map |-> sm]
     ELSE IF allocator # "valid"
       THEN [ret |-> RCUTILS_RET_INVALID_ARGUMENT, string_map |-> sm]
     ELSE IF alloc = "impl" THEN [ret |-> RCUTILS_RET_BAD_ALLOC, string_map |-> sm]
     ELSE Reserved(rcutils_string_map_reserve(
            [impl |-> TRUE, key_value_pairs |-> <<>>, capacity |-> 0, size |-> 0],
            initial_capacity, alloc # "reserve"))

rcutils_string_map_clear(sm) ==
  IF ~sm.impl THEN [ret |-> RCUTILS_RET_STRING_MAP_INVALID, string_map |-> sm]
  ELSE [ret |-> RCUTILS_RET_OK,
        string_map |->
          [sm EXCEPT !.key_value_pairs =
                       [i \in 1..sm.capacity |-> [key |-> NULL, value |-> NULL]],
                     !.size = @ - Cardinality({i \in 1..sm.capacity :
                                                 sm.key_value_pairs[i].key # NULL})]]

\* alloc names the rcutils_strdup that fails, if it is made: "key", "value",
\* or "ok" when none fails
rcutils_string_map_set_no_resize(sm, key, value, alloc) ==
  LET key_index == __get_index_of_key_if_exists(sm, key)
      key_exists == key_index # -1
      FreeSlots == {i \in 0..(sm.capacity - 1) : sm.key_value_pairs[i + 1].key = NULL}
      \* at: the slot written, the one of the key or the first free one
      Stored(at) ==
        IF alloc = "value" THEN [ret |-> RCUTILS_RET_BAD_ALLOC, string_map |-> sm]
        ELSE [ret |-> RCUTILS_RET_OK,
              string_map |->
                [sm EXCEPT !.key_value_pairs[at + 1] = [key |-> <<key>>, value |-> <<value>>],
                           !.size = IF key_exists THEN @ ELSE @ + 1]]
  IN IF ~sm.impl THEN [ret |-> RCUTILS_RET_STRING_MAP_INVALID, string_map |-> sm]
     ELSE IF key_exists THEN Stored(key_index)
     ELSE IF sm.size = sm.capacity
       THEN [ret |-> RCUTILS_RET_NOT_ENOUGH_SPACE, string_map |-> sm]
     ELSE IF alloc = "key" THEN [ret |-> RCUTILS_RET_BAD_ALLOC, string_map |-> sm]
     ELSE Stored(CHOOSE i \in FreeSlots : \A j \in FreeSlots : i <= j)

\* alloc: as for set_no_resize, and "reserve" when the reallocation fails
rcutils_string_map_set(sm, key, value, alloc) ==
  LET \* r: what rcutils_string_map_reserve returned
      Reserved(r) ==
        IF r.ret # RCUTILS_RET_OK THEN r
        ELSE rcutils_string_map_set_no_resize(r.string_map, key, value, alloc)
      \* r: what the first rcutils_string_map_set_no_resize returned
      Tried(r) ==
        IF r.ret = RCUTILS_RET_NOT_ENOUGH_SPACE
          THEN Reserved(rcutils_string_map_reserve(
                 sm, IF sm.capacity # 0 THEN 2 * sm.capacity ELSE 1, alloc # "reserve"))
          ELSE r
  IN IF ~sm.impl THEN [ret |-> RCUTILS_RET_STRING_MAP_INVALID, string_map |-> sm]
     ELSE Tried(rcutils_string_map_set_no_resize(sm, key, value, alloc))

rcutils_string_map_unset(sm, key) ==
  IF ~sm.impl THEN [ret |-> RCUTILS_RET_STRING_MAP_INVALID, string_map |-> sm]
  ELSE IF __get_index_of_key_if_exists(sm, key) = -1
    THEN [ret |-> RCUTILS_RET_STRING_KEY_NOT_FOUND, string_map |-> sm]
  ELSE [ret |-> RCUTILS_RET_OK,
        string_map |->
          __remove_key_and_value_at_index(sm, __get_index_of_key_if_exists(sm, key))]

\* rcutils_string_map_get: the value of key, or NULL
rcutils_string_map_get(sm, key) ==
  IF ~sm.impl \/ __get_index_of_key_if_exists(sm, key) = -1 THEN NULL
  ELSE sm.key_value_pairs[__get_index_of_key_if_exists(sm, key) + 1].value

rcutils_string_map_get_size(sm) ==
  IF ~sm.impl THEN [ret |-> RCUTILS_RET_STRING_MAP_INVALID, size |-> 0]
  ELSE [ret |-> RCUTILS_RET_OK, size |-> sm.size]

(***************************************************************************)
(* The containers a user holds, each zero initialised, and the last call   *)
(* on each.  before is the container as the call found it.                 *)
(***************************************************************************)
CallOnBuffer(op, new_size, outcome, ret, before) ==
  [op |-> op, new_size |-> new_size, outcome |-> outcome, ret |-> ret, before |-> before]

CallOnList(op, ret) == [op |-> op, ret |-> ret]

CallOnStringMap(op, key, capacity, ret, before) ==
  [op |-> op, key |-> key, capacity |-> capacity, ret |-> ret, before |-> before]

InitBufVars ==
  /\ heap = [b \in 1..MaxBlocks |-> "free"]
  /\ char_array = rcutils_get_zero_initialized_char_array
  /\ uint8_array = rcutils_get_zero_initialized_uint8_array
  /\ buf_last = CallOnBuffer("none", 0, "", RCUTILS_RET_OK, NULL)

InitListVars ==
  /\ array_list = rcutils_get_zero_initialized_array_list
  /\ al_last = CallOnList("none", RCUTILS_RET_OK)

InitSmapVars ==
  /\ string_map = rcutils_get_zero_initialized_string_map
  /\ sm_last = CallOnStringMap("none", "", 0, RCUTILS_RET_OK, NULL)


(***************************************************************************)
(* Shared library (src/src/shared_library.c), as built for Linux with      *)
(* _GNU_SOURCE.  An rcutils_shared_library_t is the record [lib_pointer,   *)
(* library_path, allocator]: lib_pointer is NULL or points at the handle   *)
(* dlopen gave, which is named after the library; library_path is NULL or  *)
(* points at the heap block rcutils_strdup allocated.  open is the set of  *)
(* handles the dynamic linker holds open.  The results are the return      *)
(* code, the error message set (or ""), the library, the heap and the      *)
(* handles held open afterwards.                                           *)
(***************************************************************************)
rcutils_get_zero_initialized_shared_library ==
  [lib_pointer |-> NULL, library_path |-> NULL, allocator |-> "zero initialized"]

\* fails names the call that fails, if it is made: "dlopen", "dlinfo",
\* "strdup", or "none"; close_ok tells whether a dlclose succeeds
rcutils_load_shared_library(h, open, lib, library_path, allocator, fails, close_ok) ==
  LET Failed(ret, error_msg, with_path) ==
        [ret |-> ret, error_msg |-> error_msg, heap |-> h,
         open |-> IF close_ok THEN open \ {library_path[1]} ELSE open \cup {library_path[1]},
         shared_library |-> [lib_pointer |-> NULL, library_path |-> with_path,
                             allocator |-> allocator]]
      \* r: what the allocation of rcutils_strdup returned
      Duplicated(r) ==
        IF r.pointer = NULL
          THEN Failed(RCUTILS_RET_BAD_ALLOC, "unable to allocate memory", NULL)
          ELSE [ret |-> RCUTILS_RET_OK, error_msg |-> "", heap |-> r.heap,
                open |-> open \cup {library_path[1]},
                shared_library |-> [lib_pointer |-> library_path, library_path |-> r.pointer,
                                    allocator |-> allocator]]
      Rejected(error_msg) ==
        [ret |-> RCUTILS_RET_INVALID_ARGUMENT, error_msg |-> error_msg, heap |-> h,
         open |-> open, shared_library |-> lib]
  IN IF library_path = NULL THEN Rejected("library_path argument is null")
     ELSE IF allocator # "valid" THEN Rejected("invalid allocator")
     ELSE IF lib.lib_pointer # NULL THEN Rejected("lib argument is not zero-initialized")
     ELSE IF fails = "dlopen"
       THEN [ret |-> RCUTILS_RET_ERROR, error_msg |-> "dlopen error", heap |-> h,
             open |-> open, shared_library |-> [lib EXCEPT !.allocator = allocator]]
     ELSE IF fails = "dlinfo" THEN Failed(RCUTILS_RET_ERROR, "dlinfo error", lib.library_path)
     ELSE Duplicated(allocate(h, fails # "strdup"))

\* a variant of rcutils_unload_shared_library that returns at a failed
\* dlclose
UnloadUnlessCloseFails(h, open, lib, close_ok) ==
  IF lib.lib_pointer = NULL \/ lib.library_path = NULL \/ lib.allocator # "valid"
    THEN [ret |-> RCUTILS_RET_INVALID_ARGUMENT, error_msg |-> "invalid argument", heap |-> h,
          open |-> open, shared_library |-> lib]
  ELSE IF ~close_ok
    THEN [ret |-> RCUTILS_RET_ERROR, error_msg |-> "dlclose error", heap |-> h,
          open |-> open, shared_library |-> lib]
  ELSE [ret |-> RCUTILS_RET_OK, error_msg |-> "", heap |-> deallocate(h, lib.library_path),
        open |-> open \ {lib.lib_pointer[1]},
        shared_library |-> rcutils_get_zero_initialized_shared_library]

\* close_ok: whether dlclose returns 0
rcutils_unload_shared_library(h, open, lib, close_ok) ==
  IF lib.lib_pointer = NULL
    THEN [ret |-> RCUTILS_RET_INVALID_ARGUMENT, error_msg |-> "lib->lib_pointer argument is null",
          heap |-> h, open |-> open, shared_library |-> lib]
  ELSE IF lib.library_path = NULL
    THEN [ret |-> RCUTILS_RET_INVALID_ARGUMENT,
          error_msg |-> "lib->library_path argument is null",
          heap |-> h, open |-> open, shared_library |-> lib]
  ELSE IF lib.allocator # "valid"
    THEN [ret |-> RCUTILS_RET_INVALID_ARGUMENT, error_msg |-> "invalid allocator",
          heap |-> h, open |-> open, shared_library |-> lib]
  ELSE [ret |-> IF close_ok THEN RCUTILS_RET_OK ELSE RCUTILS_RET_ERROR,
        error_msg |-> IF close_ok THEN "" ELSE "dlclose error",
        heap |-> deallocate(h, lib.library_path),
        open |-> IF close_ok THEN open \ {lib.lib_pointer[1]} ELSE open,
        shared_library |-> rcutils_get_zero_initialized_shared_library]

rcutils_is_shared_library_loaded(lib) == lib.lib_pointer # NULL

\* a call on the shared library: path is the library_path passed, before
\* the library as the call found it
CallOnLibrary(op, path, ret, error_msg, before) ==
  [op |-> op, path |-> path, ret |-> ret, error_msg |-> error_msg, before |-> before]

InitLibVars ==
  /\ shared_library = rcutils_get_zero_initialized_shared_library
  /\ dl_open = {}
  /\ sl_last = CallOnLibrary("none", NULL, RCUTILS_RET_OK, "", NULL)

\* a call of the caller of the allocator: before is the pointer it held
CallOnAllocator(op, size, allocator, outcome, returned, before) ==
  [op |-> op, size |-> size, allocator |-> allocator, outcome |-> outcome,
   returned |-> returned, before |-> before]

InitAllocVars ==
  /\ held = NULL
  /\ ra_last = CallOnAllocator("none", 0, "", "", NULL, NULL)

InitExtVars ==
  /\ InitErrVars /\ InitBufVars /\ InitListVars /\ InitSmapVars /\ InitLibVars
  /\ InitAllocVars

(***************************************************************************)
(* SpecFault: any number of threads use the counter concurrently.          *)
(***************************************************************************)
SetCount == \E count \in -2..MaxCount :
  rcutils_fault_injection_set_count(count) /\ UNCHANGED <<sweepVars, hashVars, logVars, extVars>>
TestComplete == \E t \in Threads :
  rcutils_fault_injection_is_test_complete(t) /\ UNCHANGED <<sweepVars, hashVars, logVars, extVars>>
MaybeFailLoad == \E t \in Threads : maybe_fail_load(t) /\ UNCHANGED <<sweepVars, hashVars, logVars, extVars>>
MaybeFailCas == \E t \in Threads : maybe_fail_cas(t) /\ UNCHANGED <<sweepVars, hashVars, logVars, extVars>>


InitFault == InitFaultVars /\ InitSweepVars /\ InitHashVars /\ InitLogVars /\ InitExtVars

NextFault ==
  \/ SetCount
  \/ TestComplete
  \/ MaybeFailLoad
  \/ MaybeFailCas

SpecFault == InitFault /\ [][NextFault]_vars

(***************************************************************************)
(* SpecFaultFair: SpecFault with a scheduler that lets every thread that   *)
(* is inside the loop of _rcutils_fault_injection_maybe_fail take its next *)
(* compare-exchange eventually.  Nothing is asked of the callers: no       *)
(* thread has to call maybe_fail, set_count or is_test_complete.           *)
(***************************************************************************)
SpecFaultFair ==
  /\ InitFault
  /\ [][NextFault]_vars
  /\ \A t \in Threads :
       WF_vars(maybe_fail_cas(t) /\ UNCHANGED <<sweepVars, hashVars, logVars, extVars>>)

(***************************************************************************)
(* RCUTILS_FAULT_INJECTION_TEST(code), with a code of num_sites sites that *)
(* each run RCUTILS_FAULT_INJECTION_MAYBE_RETURN_ERROR in order: the       *)
(* subject returns at the first site that injects a failure.  The macro    *)
(* runs on one thread (thread 1) and nothing else touches the counter.     *)
(***************************************************************************)
SweepThread == 1

\* rcutils_fault_injection_set_count(fault_injection_count++); then code starts
SweepSetCount ==
  /\ sweep_pc = "set_count"
  /\ rcutils_fault_injection_set_count(fault_injection_count)
  /\ fault_injection_count' = fault_injection_count + 1
  /\ sweep_site' = 1
  /\ sweep_pc' = "site"
  /\ UNCHANGED <<num_sites, sweep_log, hashVars, logVars, extVars>>

\* The subject reaches its next site and calls _rcutils_fault_injection_maybe_fail.
SweepSiteCall ==
  /\ sweep_pc = "site"
  /\ maybe_fail_load(SweepThread)
  /\ sweep_pc' = "site_return"
  /\ UNCHANGED <<fault_injection_count, num_sites, sweep_site, sweep_log, hashVars, logVars, extVars>>

SweepSiteCas ==
  /\ sweep_pc = "site_return"
  /\ maybe_fail_cas(SweepThread)
  /\ UNCHANGED <<sweepVars, hashVars, logVars, extVars>>

\* RCUTILS_FAULT_INJECTION_MAYBE_RETURN_ERROR: the call has returned; on
\* RCUTILS_FAULT_INJECTION_FAIL_NOW the subject returns its error, otherwise
\* it goes on to the next site or, after the last one, returns normally.
\* An iteration's entry in sweep_log: the count it was started with and the
\* site that failed (0: none).
SweepSiteReturn ==
  /\ sweep_pc = "site_return"
  /\ fi_pc[SweepThread] = "idle"
  /\ LET ret == fi_result[SweepThread][1].ret
         started_with == fault_injection_count - 1
     IN IF ret = RCUTILS_FAULT_INJECTION_FAIL_NOW
          THEN /\ sweep_log' = Append(sweep_log, [count |-> started_with, site |-> sweep_site])
               /\ sweep_pc' = "while"
               /\ sweep_site' = sweep_site
          ELSE IF sweep_site < num_sites
                 THEN /\ sweep_site' = sweep_site + 1
                      /\ sweep_pc' = "site"
                      /\ sweep_log' = sweep_log
                 ELSE /\ sweep_log' = Append(sweep_log, [count |-> started_with, site |-> 0])
                      /\ sweep_pc' = "while"
                      /\ sweep_site' = sweep_site
  /\ UNCHANGED <<faultVars, fault_injection_count, num_sites, hashVars, logVars, extVars>>

\* } while (!rcutils_fault_injection_is_test_complete());
SweepWhile ==
  /\ sweep_pc = "while"
  /\ rcutils_fault_injection_is_test_complete(SweepThread)
  /\ sweep_pc' = IF ~IsTestComplete(rcutils_fault_injection_get_count)
                   THEN "set_count" ELSE "finish"
  /\ UNCHANGED <<fault_injection_count, num_sites, sweep_site, sweep_log, hashVars, logVars, extVars>>

\* rcutils_fault_injection_set_count(RCUTILS_FAULT_INJECTION_NEVER_FAIL);
SweepFinish ==
  /\ sweep_pc = "finish"
  /\ rcutils_fault_injection_set_count(RCUTILS_FAULT_INJECTION_NEVER_FAIL)
  /\ sweep_pc' = "done"
  /\ UNCHANGED <<fault_injection_count, num_sites, sweep_site, sweep_log, hashVars, logVars, extVars>>

InitSweep ==
  /\ InitFaultVars
  /\ InitHashVars
  /\ InitLogVars
  /\ InitExtVars
  /\ sweep_pc = "set_count"
  /\ fault_injection_count = 0
  /\ num_sites \in 1..MaxSites
  /\ sweep_site = 0
  /\ sweep_log = <<>>

NextSweep ==
  \/ SweepSetCount
  \/ SweepSiteCall
  \/ SweepSiteCas
  \/ SweepSiteReturn
  \/ SweepWhile
  \/ SweepFinish

\* The macro is straight-line code on one thread: it keeps running until
\* its loop ends.
SpecSweep == InitSweep /\ [][NextSweep]_vars /\ WF_vars(NextSweep)

InitHashMap == InitFaultVars /\ InitSweepVars /\ InitHashVars /\ InitLogVars /\ InitExtVars

NextHashMap ==
  \/ MapInit
  \/ MapSet
  \/ MapUnset
  \/ MapGet
  \/ MapKeyExists
  \/ MapIterate
  \/ MapFini

SpecHashMap == InitHashMap /\ [][NextHashMap]_vars

(***************************************************************************)
(* Logger names.  With the string hash, appending ".b" to a name keeps its *)
(* bucket at every capacity the map reaches: "a", "a.b" and "a.b.b" share  *)
(* one.  "" has a bucket of its own.                                       *)
(***************************************************************************)
NameRoot == <<>>
NameA == <<97>>
NameAB == <<97, 46, 98>>
NameABB == <<97, 46, 98, 46, 98>>
NameABBD == <<97, 46, 98, 46, 98, 46, 100>>
NameX == <<120>>

InitLogging == InitFaultVars /\ InitSweepVars /\ InitHashVars /\ InitLogVars /\ InitExtVars

(***************************************************************************)
(* SpecLogging: the hierarchy.  The loggers "a", "a.b" and "a.b.b" are     *)
(* given UNSET, DEBUG, WARN or a level that is none; "a.b.b.d" and "x" are *)
(* only asked about.                                                       *)
(***************************************************************************)
HierarchySetNames == {NameA, NameAB, NameABB}
HierarchyQueryNames == HierarchySetNames \cup {NameABBD, NameX}
HierarchyLevels == {RCUTILS_LOG_SEVERITY_UNSET, RCUTILS_LOG_SEVERITY_DEBUG,
                    RCUTILS_LOG_SEVERITY_WARN, 5}

LogSetLevel == SetLevelOf(HierarchySetNames, HierarchyLevels, {"ok", "strdup"})
LogGetEffective == GetEffectiveOf(HierarchyQueryNames)

NextLogging ==
  \/ LogInitialize
  \/ LogShutdown
  \/ LogSetDefault
  \/ LogSetLevel
  \/ LogGetEffective

SpecLogging == InitLogging /\ [][NextLogging]_vars

(***************************************************************************)
(* SpecLevels: every level.  The loggers "", "a" and "a.b" are given each  *)
(* of the levels 0, 10, ..., 10 * MaxLevelIndex, or -1.  An explicit       *)
(* initialization is one that goes well; the ones that fail are those of   *)
(* RCUTILS_LOGGING_AUTOINIT inside the other calls.                        *)
(***************************************************************************)
LevelsSetNames == {NameRoot, NameA, NameAB}
LevelsUpToMax == {10 * i : i \in 0..MaxLevelIndex} \cup {-1}

LevelsInitialize == InitializeOf({DefaultInit})
LevelsSetLevel == SetLevelOf(LevelsSetNames, LevelsUpToMax, {"ok"})
LevelsGetEffective == GetEffectiveOf(LevelsSetNames)

NextLevels ==
  \/ LevelsInitialize
  \/ LogShutdown
  \/ LevelsSetLevel
  \/ LevelsGetEffective

SpecLevels == InitLogging /\ [][NextLevels]_vars

(***************************************************************************)
(* SpecDefault: the default level.  After an initialization that goes      *)
(* well or inside the calls, the default level is set directly, with UNSET *)
(* or DEBUG, and the loggers "" and "a" are given each of the levels of    *)
(* SpecLevels.                                                             *)
(***************************************************************************)
DefaultSetLevel == SetLevelOf({NameRoot, NameA}, LevelsUpToMax, {"ok"})

NextDefault ==
  \/ LevelsInitialize
  \/ LogSetDefault
  \/ DefaultSetLevel

SpecDefault == InitLogging /\ [][NextDefault]_vars

(***************************************************************************)
(* SpecLogInit: logging is initialized and shut down under every           *)
(* allocator, with logger levels set in between.                           *)
(***************************************************************************)
\* The calls of rcutils_logging_initialize_with_allocator made: under each
\* allocator with one environment variable at each of its values, and with
\* one of the failures of setvbuf and of the allocation of the map.
InitInputs ==
  {[DefaultInit EXCEPT !.allocator = a, ![v] = x] :
     a \in {"rcutils_get_default_allocator", "custom allocator", "invalid"},
     v \in {"use_stdout", "buffered_stream", "colorized_output"},
     x \in {"", "0", "1", "2"}}
  \cup {[DefaultInit EXCEPT !.buffered_stream = x, !.setvbuf_ok = FALSE] : x \in {"0", "1"}}
  \cup {[DefaultInit EXCEPT !.alloc_ok = FALSE]}

EnvInitialize == InitializeOf(InitInputs)

EnvSetLevel ==
  SetLevelOf({NameA, NameAB}, {RCUTILS_LOG_SEVERITY_UNSET, RCUTILS_LOG_SEVERITY_DEBUG}, {"ok"})

NextLogInit ==
  \/ EnvInitialize
  \/ LogShutdown
  \/ LogSetDefault
  \/ EnvSetLevel

SpecLogInit == InitLogging /\ [][NextLogInit]_vars

ErrSetState ==
  \E t \in Threads, error_string \in {NULL} \cup {<<m>> : m \in ErrorMessages},
     file \in {NULL} \cup {<<f>> : f \in ErrorFiles}, line_number \in ErrorLines :
    /\ SetErrorTls(t, rcutils_set_error_state(ErrorTls(t), error_string, file, line_number))
    /\ err_last' = [thread |-> t, op |-> "set_error_state", str |-> <<>>]
    /\ err_written' = IF error_string = NULL \/ file = NULL THEN err_written
                      ELSE [err_written EXCEPT ![t] =
                              <<[message |-> error_string[1], file |-> file[1],
                                 line_number |-> line_number]>>]
    /\ UNCHANGED <<faultVars, sweepVars, hashVars, logVars, bufVars, listVars, smapVars, libVars, allocVars>>

ErrGetString ==
  \E t \in Threads :
    LET Returns(r) ==
          /\ SetErrorTls(t, r.tls)
          /\ err_last' = [thread |-> t, op |-> "get_error_string", str |-> r.str]
    IN /\ Returns(rcutils_get_error_string(ErrorTls(t)))
       /\ UNCHANGED <<err_written, faultVars, sweepVars, hashVars, logVars, bufVars, listVars, smapVars, libVars, allocVars>>

ErrReset ==
  \E t \in Threads :
    /\ SetErrorTls(t, rcutils_reset_error(ErrorTls(t)))
    /\ err_last' = [thread |-> t, op |-> "reset_error", str |-> <<>>]
    /\ err_written' = [err_written EXCEPT ![t] = <<>>]
    /\ UNCHANGED <<faultVars, sweepVars, hashVars, logVars, bufVars, listVars, smapVars, libVars, allocVars>>

InitError == InitFaultVars /\ InitSweepVars /\ InitHashVars /\ InitLogVars /\ InitExtVars

NextError ==
  \/ ErrSetState
  \/ ErrGetString
  \/ ErrReset

SpecError == InitError /\ [][NextError]_vars

(***************************************************************************)
(* SpecFini: a user initialises, fills and finalises one array list and    *)
(* one hash map, and may finalise either at any time, also before init     *)
(* and a second time.  In each action r is what the call returned.         *)
(***************************************************************************)
ListInit == \E initial_capacity \in 0..MaxInitialCapacity, alloc_ok \in BOOLEAN :
  LET Returns(r) ==
        /\ array_list' = r.array_list
        /\ al_last' = CallOnList("init", r.ret)
  IN /\ ~array_list.impl
     /\ Returns(rcutils_array_list_init(array_list, initial_capacity, alloc_ok))
     /\ UNCHANGED <<faultVars, sweepVars, hashVars, logVars, errVars, bufVars, smapVars, libVars, allocVars>>

ListAdd == \E data \in Values, alloc_ok \in BOOLEAN :
  LET Returns(r) ==
        /\ Len(r.array_list.list) <= MaxEntries
        /\ array_list' = r.array_list
        /\ al_last' = CallOnList("add", r.ret)
  IN /\ Returns(rcutils_array_list_add(array_list, data, alloc_ok))
     /\ UNCHANGED <<faultVars, sweepVars, hashVars, logVars, errVars, bufVars, smapVars, libVars, allocVars>>

ListFini ==
  LET Returns(r) ==
        /\ array_list' = r.array_list
        /\ al_last' = CallOnList("fini", r.ret)
  IN /\ Returns(rcutils_array_list_fini(array_list))
     /\ UNCHANGED <<faultVars, sweepVars, hashVars, logVars, errVars, bufVars, smapVars, libVars, allocVars>>

InitFini == InitFaultVars /\ InitSweepVars /\ InitHashVars /\ InitLogVars /\ InitExtVars

NextFini ==
  \/ ListInit
  \/ ListAdd
  \/ ListFini
  \/ MapInit
  \/ MapFini

SpecFini == InitFini /\ [][NextFini]_vars

(***************************************************************************)
(* SpecList: a user initialises one array list, adds elements to it and    *)
(* removes the element at an index, with either order in which memcpy may  *)
(* copy the elements behind it, and finalises it.                          *)
(***************************************************************************)
\* a call that removed the element at index; before is the list it found
CallOnListAt(op, index, order, ret, before) ==
  [op |-> op, index |-> index, order |-> order, ret |-> ret, before |-> before]

ListRemove == \E index \in 0..MaxEntries, order \in MemcpyOrders :
  LET Returns(r) ==
        /\ array_list' = r.array_list
        /\ al_last' = CallOnListAt("remove", index, order, r.ret, array_list)
  IN /\ Returns(rcutils_array_list_remove(array_list, index, order))
     /\ UNCHANGED <<faultVars, sweepVars, hashVars, logVars, errVars, bufVars, smapVars, libVars, allocVars>>

NextList ==
  \/ ListInit
  \/ ListAdd
  \/ ListRemove
  \/ ListFini

SpecList == InitFini /\ [][NextList]_vars

(***************************************************************************)
(* SpecBuffers: a user works on one char array and one uint8 array that    *)
(* allocate from one heap.  A char array whose buffer was released under   *)
(* it keeps pointing at the block; resizing or finalising it would hand a  *)
(* block that is not allocated to the allocator, so the model lets the     *)
(* user only initialise it anew.  In each action r is what the call returned.        *)
(***************************************************************************)
Allocators == {"valid", "invalid"}
ReallocOutcomes == {"fail", "in place", "moved"}

\* the array takes for its own a buffer that is not an allocated block: one
\* released under it, or storage of the caller
Dangling(ca) ==
  /\ ca.owns_buffer
  /\ ca.buffer # NULL
  /\ (ca.buffer[1] \notin DOMAIN heap \/ heap[ca.buffer[1]] # "allocated")

CharArrayInit ==
  \E buffer_capacity \in 0..MaxBufferSize, allocator \in Allocators, alloc_ok \in BOOLEAN :
    LET Returns(r) ==
          /\ heap' = r.heap
          /\ char_array' = r.char_array
          /\ buf_last' = CallOnBuffer("char_array_init", buffer_capacity,
                                      IF alloc_ok THEN "ok" ELSE "fail", r.ret, char_array)
    IN /\ Returns(rcutils_char_array_init(heap, char_array, buffer_capacity, allocator,
                                          alloc_ok))
       /\ UNCHANGED <<uint8_array, faultVars, sweepVars, hashVars, logVars, errVars,
                      listVars, smapVars, libVars, allocVars>>

\* The caller makes the array use storage of its own, as logging.c does
\* with its stack buffers.
CharArrayBorrow == \E buffer_capacity \in 1..MaxBufferSize :
  /\ char_array.buffer = NULL
  /\ char_array' = [buffer |-> <<0>>, owns_buffer |-> FALSE, buffer_length |-> 0,
                    buffer_capacity |-> buffer_capacity, allocator |-> "valid",
                    bytes |-> Block(buffer_capacity, <<>>)]
  /\ buf_last' = CallOnBuffer("char_array_borrow", buffer_capacity, "", RCUTILS_RET_OK,
                              char_array)
  /\ UNCHANGED <<heap, uint8_array, faultVars, sweepVars, hashVars, logVars, errVars,
                 listVars, smapVars, libVars, allocVars>>

CharArrayResize == \E new_size \in 0..MaxBufferSize, outcome \in ReallocOutcomes :
  LET Returns(r) ==
        /\ heap' = r.heap
        /\ char_array' = r.char_array
        /\ buf_last' = CallOnBuffer("char_array_resize", new_size, outcome, r.ret, char_array)
  IN /\ ~Dangling(char_array)
     /\ Returns(rcutils_char_array_resize(heap, char_array, new_size, outcome))
     /\ UNCHANGED <<uint8_array, faultVars, sweepVars, hashVars, logVars, errVars,
                    listVars, smapVars, libVars, allocVars>>

CharArrayFini ==
  LET Returns(r) ==
        /\ heap' = r.heap
        /\ char_array' = r.char_array
        /\ buf_last' = CallOnBuffer("char_array_fini", 0, "", r.ret, char_array)
  IN /\ ~Dangling(char_array)
     /\ Returns(rcutils_char_array_fini(heap, char_array))
     /\ UNCHANGED <<uint8_array, faultVars, sweepVars, hashVars, logVars, errVars,
                    listVars, smapVars, libVars, allocVars>>

Uint8ArrayInit ==
  \E buffer_capacity \in 0..MaxBufferSize, allocator \in Allocators, alloc_ok \in BOOLEAN :
    LET Returns(r) ==
          /\ heap' = r.heap
          /\ uint8_array' = r.uint8_array
          /\ buf_last' = CallOnBuffer("uint8_array_init", buffer_capacity,
                                      IF alloc_ok THEN "ok" ELSE "fail", r.ret, uint8_array)
    IN /\ Returns(rcutils_uint8_array_init(heap, uint8_array, buffer_capacity, allocator,
                                           alloc_ok))
       /\ UNCHANGED <<char_array, faultVars, sweepVars, hashVars, logVars, errVars,
                      listVars, smapVars, libVars, allocVars>>

Uint8ArrayResize == \E new_size \in 0..MaxBufferSize, outcome \in ReallocOutcomes :
  LET Returns(r) ==
        /\ heap' = r.heap
        /\ uint8_array' = r.uint8_array
        /\ buf_last' = CallOnBuffer("uint8_array_resize", new_size, outcome, r.ret,
                                    uint8_array)
  IN /\ Returns(rcutils_uint8_array_resize(heap, uint8_array, new_size, outcome))
     /\ UNCHANGED <<char_array, faultVars, sweepVars, hashVars, logVars, errVars,
                    listVars, smapVars, libVars, allocVars>>

Uint8ArrayFini ==
  LET Returns(r) ==
        /\ heap' = r.heap
        /\ uint8_array' = r.uint8_array
        /\ buf_last' = CallOnBuffer("uint8_array_fini", 0, "", r.ret, uint8_array)
  IN /\ Returns(rcutils_uint8_array_fini(heap, uint8_array))
     /\ UNCHANGED <<char_array, faultVars, sweepVars, hashVars, logVars, errVars,
                    listVars, smapVars, libVars, allocVars>>

InitBuffers == InitFaultVars /\ InitSweepVars /\ InitHashVars /\ InitLogVars /\ InitExtVars

NextBuffers ==
  \/ CharArrayInit
  \/ CharArrayBorrow
  \/ CharArrayResize
  \/ CharArrayFini
  \/ Uint8ArrayInit
  \/ Uint8ArrayResize
  \/ Uint8ArrayFini

SpecBuffers == InitBuffers /\ [][NextBuffers]_vars

(***************************************************************************)
(* SpecStrings: a user builds strings in one char array: it initialises    *)
(* the array or lends it a buffer, appends strings, expands it and         *)
(* finalises it.  The sizes asked for stay within MaxStringSize.           *)
(***************************************************************************)
MaxStringSize == 4

\* the strings appended: "", "a" and "bc"
Sources == {<<>>, <<97>>, <<98, 99>>}

\* a call that appended src
CallOnString(op, src, outcome, ret, before) ==
  [op |-> op, new_size |-> Len(src), src |-> src, outcome |-> outcome, ret |-> ret,
   before |-> before]

CharArrayExpandAsNeeded == \E new_size \in 0..MaxStringSize, outcome \in ReallocOutcomes :
  LET Returns(r) ==
        /\ heap' = r.heap
        /\ char_array' = r.char_array
        /\ buf_last' = CallOnBuffer("char_array_expand_as_needed", new_size, outcome, r.ret,
                                    char_array)
  IN /\ ~Dangling(char_array)
     /\ Returns(rcutils_char_array_expand_as_needed(heap, char_array, new_size, outcome))
     /\ UNCHANGED <<uint8_array, faultVars, sweepVars, hashVars, logVars, errVars,
                    listVars, smapVars, libVars, allocVars>>

CharArrayStrcat == \E src \in Sources, outcome \in ReallocOutcomes :
  LET Returns(r) ==
        /\ heap' = r.heap
        /\ char_array' = r.char_array
        /\ buf_last' = CallOnString("char_array_strcat", src, outcome, r.ret, char_array)
  IN /\ ~Dangling(char_array)
     /\ (IF char_array.buffer_length = 0 THEN 0 ELSE char_array.buffer_length - 1)
          + Len(src) + 1 <= MaxStringSize
     /\ Returns(rcutils_char_array_strcat(heap, char_array, src, outcome))
     /\ UNCHANGED <<uint8_array, faultVars, sweepVars, hashVars, logVars, errVars,
                    listVars, smapVars, libVars, allocVars>>

NextStrings ==
  \/ CharArrayInit
  \/ CharArrayBorrow
  \/ CharArrayExpandAsNeeded
  \/ CharArrayStrcat
  \/ CharArrayFini

SpecStrings == InitBuffers /\ [][NextStrings]_vars

(***************************************************************************)
(* SpecStringMap: a user works on one string map.  In each action r is     *)
(* what the call returned.                                                 *)
(***************************************************************************)
StringKeys == {"key1", "key2", "key3"}
StringValues == {"value1", "value2"}

StringMapInit ==
  \E initial_capacity \in 0..MaxCapacity, allocator \in Allocators,
     alloc \in {"ok", "impl", "reserve"} :
    LET Returns(r) ==
          /\ string_map' = r.string_map
          /\ sm_last' = CallOnStringMap("init", "", initial_capacity, r.ret, string_map)
    IN /\ Returns(rcutils_string_map_init(string_map, initial_capacity, allocator, alloc))
       /\ UNCHANGED <<faultVars, sweepVars, hashVars, logVars, errVars, bufVars, listVars, libVars, allocVars>>

StringMapReserve == \E capacity \in 0..MaxCapacity, realloc_ok \in BOOLEAN :
  LET Returns(r) ==
        /\ string_map' = r.string_map
        /\ sm_last' = CallOnStringMap("reserve", "", capacity, r.ret, string_map)
  IN /\ Returns(rcutils_string_map_reserve(string_map, capacity, realloc_ok))
     /\ UNCHANGED <<faultVars, sweepVars, hashVars, logVars, errVars, bufVars, listVars, libVars, allocVars>>

StringMapSet ==
  \E key \in StringKeys, value \in StringValues, alloc \in {"ok", "key", "value", "reserve"} :
    LET Returns(r) ==
          /\ r.string_map.capacity <= MaxCapacity
          /\ string_map' = r.string_map
          /\ sm_last' = CallOnStringMap("set", key, 0, r.ret, string_map)
    IN /\ Returns(rcutils_string_map_set(string_map, key, value, alloc))
       /\ UNCHANGED <<faultVars, sweepVars, hashVars, logVars, errVars, bufVars, listVars, libVars, allocVars>>

StringMapSetNoResize ==
  \E key \in StringKeys, value \in StringValues, alloc \in {"ok", "key", "value"} :
    LET Returns(r) ==
          /\ string_map' = r.string_map
          /\ sm_last' = CallOnStringMap("set_no_resize", key, 0, r.ret, string_map)
    IN /\ Returns(rcutils_string_map_set_no_resize(string_map, key, value, alloc))
       /\ UNCHANGED <<faultVars, sweepVars, hashVars, logVars, errVars, bufVars, listVars, libVars, allocVars>>

StringMapUnset == \E key \in StringKeys :
  LET Returns(r) ==
        /\ string_map' = r.string_map
        /\ sm_last' = CallOnStringMap("unset", key, 0, r.ret, string_map)
  IN /\ Returns(rcutils_string_map_unset(string_map, key))
     /\ UNCHANGED <<faultVars, sweepVars, hashVars, logVars, errVars, bufVars, listVars, libVars, allocVars>>

StringMapClear ==
  LET Returns(r) ==
        /\ string_map' = r.string_map
        /\ sm_last' = CallOnStringMap("clear", "", 0, r.ret, string_map)
  IN /\ Returns(rcutils_string_map_clear(string_map))
     /\ UNCHANGED <<faultVars, sweepVars, hashVars, logVars, errVars, bufVars, listVars, libVars, allocVars>>

InitStringMap == InitFaultVars /\ InitSweepVars /\ InitHashVars /\ InitLogVars /\ InitExtVars

NextStringMap ==
  \/ StringMapInit
  \/ StringMapReserve
  \/ StringMapSet
  \/ StringMapSetNoResize
  \/ StringMapUnset
  \/ StringMapClear

SpecStringMap == InitStringMap /\ [][NextStringMap]_vars

(***************************************************************************)
(* SpecLibrary: a user loads libraries into one rcutils_shared_library_t   *)
(* and unloads them, in any order, with every outcome of dlopen, dlinfo,   *)
(* rcutils_strdup and dlclose.                                             *)
(***************************************************************************)
Libraries == {"liba.so", "libb.so"}
LoadFailures == {"none", "dlopen", "dlinfo", "strdup"}

LibraryLoad ==
  \E library_path \in {NULL} \cup {<<l>> : l \in Libraries}, allocator \in Allocators,
     fails \in LoadFailures, close_ok \in BOOLEAN :
    LET Returns(r) ==
          /\ heap' = r.heap
          /\ dl_open' = r.open
          /\ shared_library' = r.shared_library
          /\ sl_last' = CallOnLibrary("load", library_path, r.ret, r.error_msg, shared_library)
    IN /\ Returns(rcutils_load_shared_library(heap, dl_open, shared_library, library_path,
                                              allocator, fails, close_ok))
       /\ UNCHANGED <<char_array, uint8_array, buf_last, faultVars, sweepVars, hashVars,
                      logVars, errVars, listVars, smapVars, allocVars>>

LibraryUnload == \E close_ok \in BOOLEAN :
  LET Returns(r) ==
        /\ heap' = r.heap
        /\ dl_open' = r.open
        /\ shared_library' = r.shared_library
        /\ sl_last' = CallOnLibrary("unload", NULL, r.ret, r.error_msg, shared_library)
  IN /\ Returns(rcutils_unload_shared_library(heap, dl_open, shared_library, close_ok))
     /\ UNCHANGED <<char_array, uint8_array, buf_last, faultVars, sweepVars, hashVars,
                    logVars, errVars, listVars, smapVars, allocVars>>

InitLibrary == InitFaultVars /\ InitSweepVars /\ InitHashVars /\ InitLogVars /\ InitExtVars

NextLibrary ==
  \/ LibraryLoad
  \/ LibraryUnload

SpecLibrary == InitLibrary /\ [][NextLibrary]_vars

(***************************************************************************)
(* SpecAllocator: a caller holds one pointer.  It allocates a block,       *)
(* reallocates the block it holds with rcutils_reallocf, passing a valid   *)
(* or an invalid allocator, and deallocates it.  After a call that         *)
(* returned NULL the caller holds NULL.                                    *)
(***************************************************************************)
AllocatorAllocate == \E size \in 1..MaxBufferSize, ok \in BOOLEAN :
  LET Returns(r) ==
        /\ heap' = r.heap
        /\ held' = r.pointer
        /\ ra_last' = CallOnAllocator("allocate", size, "valid",
                                      IF ok THEN "ok" ELSE "fail", r.pointer, held)
  IN /\ held = NULL
     /\ Returns(allocate(heap, ok))
     /\ UNCHANGED <<char_array, uint8_array, buf_last, faultVars, sweepVars, hashVars,
                    logVars, errVars, listVars, smapVars, libVars>>

AllocatorReallocf ==
  \E size \in 1..MaxBufferSize, allocator \in Allocators, outcome \in ReallocOutcomes :
    LET Returns(r) ==
          /\ heap' = r.heap
          /\ held' = r.pointer
          /\ ra_last' = CallOnAllocator("reallocf", size, allocator, outcome, r.pointer, held)
    IN /\ Returns(rcutils_reallocf(heap, held, allocator, outcome))
       /\ UNCHANGED <<char_array, uint8_array, buf_last, faultVars, sweepVars, hashVars,
                      logVars, errVars, listVars, smapVars, libVars>>

AllocatorDeallocate ==
  /\ heap' = deallocate(heap, held)
  /\ held' = NULL
  /\ ra_last' = CallOnAllocator("deallocate", 0, "valid", "", NULL, held)
  /\ UNCHANGED <<char_array, uint8_array, buf_last, faultVars, sweepVars, hashVars,
                 logVars, errVars, listVars, smapVars, libVars>>

InitAllocator == InitFaultVars /\ InitSweepVars /\ InitHashVars /\ InitLogVars /\ InitExtVars

NextAllocator ==
  \/ AllocatorAllocate
  \/ AllocatorReallocf
  \/ AllocatorDeallocate

SpecAllocator == InitAllocator /\ [][NextAllocator]_vars

(***************************************************************************)
(* Claims about the fault-injection counter.                               *)
(***************************************************************************)

\* C7: between two set_count calls at most one maybe_fail call, whatever the
\* threads and their interleaving, returns 0 (fail now), and that call is
\* the one that took the counter from 0 to -1; a call that returns without
\* decrementing never returns 0.
C7_AtMostOneFailNow ==
  /\ Cardinality({i \in DOMAIN epoch_rets :
                    epoch_rets[i].ret = RCUTILS_FAULT_INJECTION_FAIL_NOW}) <= 1
  /\ \A i \in DOMAIN epoch_rets :
       epoch_rets[i].ret = RCUTILS_FAULT_INJECTION_FAIL_NOW
         => epoch_rets[i].before = 0 /\ epoch_rets[i].after = -1
  /\ \A t \in Threads :
       fi_result[t] # <<>> /\ fi_result[t][1].early
         => fi_result[t][1].ret # RCUTILS_FAULT_INJECTION_FAIL_NOW

\* Two threads decremented in the same epoch, one of them got the 0, and a
\* further call is still inside its loop.
C7_Witness ==
  /\ \E i, j \in DOMAIN epoch_rets :
       /\ epoch_rets[i].thread # epoch_rets[j].thread
       /\ epoch_rets[j].ret = RCUTILS_FAULT_INJECTION_FAIL_NOW
  /\ \E t \in Threads : fi_pc[t] = "cas"

\* C8: every completed maybe_fail call is one atomic step on the counter.
\* A call that met a counter <= -1 returned that value and left the counter
\* alone; every other call returned the counter's value right before its own
\* decrement by exactly 1.  Hence the i-th decrementing call since set_count(n)
\* returned n - (i - 1): no value is returned twice and no decrement is lost.
C8_AtomicStep ==
  /\ \A i \in DOMAIN epoch_rets :
       /\ epoch_rets[i].before > -1
       /\ epoch_rets[i].ret = epoch_rets[i].before
       /\ epoch_rets[i].after = epoch_rets[i].before - 1
       /\ epoch_rets[i].before = epoch_set - (i - 1)
  /\ g_rcutils_fault_injection_count = epoch_set - Len(epoch_rets)
  /\ \A t \in Threads :
       fi_result[t] # <<>> /\ fi_result[t][1].early
         => /\ fi_result[t][1].before <= -1
            /\ fi_result[t][1].ret = fi_result[t][1].before
            /\ fi_result[t][1].after = fi_result[t][1].before

\* Both threads decremented the counter in one epoch while a further call
\* had to retry, after an earlier call had returned early.
C8_Witness ==
  /\ Len(epoch_rets) >= 2
  /\ \E i, j \in DOMAIN epoch_rets : epoch_rets[i].thread # epoch_rets[j].thread
  /\ \E t \in Threads : fi_result[t] # <<>> /\ fi_result[t][1].early

\* C9 (as amended): is_test_complete returns true exactly when the counter is
\* greater than -1, that is, when the last run of the subject did not use up
\* the count it was given.
C9_CompleteIffAboveNeverFail ==
  fi_complete # <<>> => (fi_complete[1].result <=> fi_complete[1].count > -1)

\* C9 as stated: is_test_complete returns true exactly when the counter is <= -1.
C9_CompleteIffNeverFail ==
  fi_complete # <<>> => (fi_complete[1].result <=> fi_complete[1].count <= -1)

\* is_test_complete was called with the counter at -1 and answered false.
C9_Witness ==
  /\ fi_complete # <<>>
  /\ fi_complete[1].count = -1
  /\ ~fi_complete[1].result

\* The expected log of a finished sweep over n sites: the iteration started
\* with count i - 1 fails at site i, the iteration started with n fails nowhere.
SweepExpected(n) ==
  [i \in 1..(n + 1) |-> IF i <= n THEN [count |-> i - 1, site |-> i]
                                  ELSE [count |-> n, site |-> 0]]

\* C10: the RCUTILS_FAULT_INJECTION_TEST loop terminates, and when it has,
\* the iterations started with 0, 1, 2, ... failed at site 1, 2, 3, ... in
\* turn and the last iteration (count = number of sites; 3 for the subject
\* with three sites) injected no failure: each site failed exactly once.
C10_SweepTerminatesEachSiteOnce ==
  /\ <>(sweep_pc = "done")
  /\ [](sweep_pc = "done" => sweep_log = SweepExpected(num_sites))

\* The sweep of the subject with three sites has finished, after four
\* iterations, the last one started with the count 3.
C10_Witness ==
  /\ sweep_pc = "done"
  /\ num_sites = 3
  /\ Len(sweep_log) = 4
  /\ sweep_log[4] = [count |-> 3, site |-> 0]
  /\ \A k \in 1..3 : Cardinality({i \in DOMAIN sweep_log : sweep_log[i].site = k}) = 1

(***************************************************************************)
(* Claims about the hash map.                                              *)
(***************************************************************************)
\* C4: after set(k, v) returned RCUTILS_RET_OK, get(k) returns RCUTILS_RET_OK
\* and a copy of the most recent v, whatever sets and unsets of other keys
\* and whatever rehashes happened in between.
C4_GetReturnsLastSet ==
  (hm_last.op = "get" /\ hm_stored[hm_last.key] # NULL) =>
    (hm_last.ret = RCUTILS_RET_OK /\ hm_last.data = hm_stored[hm_last.key])

C4_Witness ==
  /\ hm_last.op = "get" /\ hm_stored[hm_last.key] # NULL
  /\ hash_map.capacity >= 8
  /\ hm_last.ret = RCUTILS_RET_OK /\ hm_last.data = hm_stored[hm_last.key]

NoDuplicates(seq) == \A i, j \in DOMAIN seq : i # j => seq[i] # seq[j]

\* C5: iterating with get_next_key_and_data from a NULL previous key visits
\* every key of the map exactly once (as many successful calls as the map
\* has keys) and then returns RCUTILS_RET_HASH_MAP_NO_MORE_ENTRIES.
C5_IterationVisitsEachKeyOnce ==
  hm_last.op = "iterate" =>
    /\ hm_last.ret = RCUTILS_RET_HASH_MAP_NO_MORE_ENTRIES
    /\ Len(hm_last.data) = hash_map.size
    /\ NoDuplicates(hm_last.data)
    /\ {hm_last.data[i] : i \in DOMAIN hm_last.data} = {k \in Keys : hm_stored[k] # NULL}

C5_Witness ==
  /\ hm_last.op = "iterate" /\ hash_map.size = MaxEntries
  /\ hm_last.ret = RCUTILS_RET_HASH_MAP_NO_MORE_ENTRIES
  /\ Len(hm_last.data) = hash_map.size

\* C6: after unset(k) returned RCUTILS_RET_OK, key_exists(k) is false and
\* every other key that existed before the call still exists.
C6_UnsetRemovesOnlyThatKey ==
  (hm_last.op = "unset" /\ hm_last.ret = RCUTILS_RET_OK) =>
    /\ ~rcutils_hash_map_key_exists(hash_map, hm_last.key)
    /\ \A k \in hm_last.existed \ {hm_last.key} : rcutils_hash_map_key_exists(hash_map, k)

C6_Witness ==
  /\ hm_last.op = "unset" /\ hm_last.ret = RCUTILS_RET_OK
  /\ hm_last.key \in hm_last.existed
  /\ Cardinality(hm_last.existed) = MaxEntries

(***************************************************************************)
(* Claims about the logger levels.  The level a logger is expected to have *)
(* is defined here from the contents of the map alone, without the lookup  *)
(* functions of the program.                                               *)
(***************************************************************************)
SeveritiesEntries(map) ==
  UNION {{map.map[b].list[i] : i \in DOMAIN map.map[b].list} : b \in DOMAIN map.map}

\* The level stored for name, without its marker bit; UNSET if none is.
StoredSeverity(map, name) ==
  IF \E entry \in SeveritiesEntries(map) : entry.key = name
    THEN 2 * ((CHOOSE entry \in SeveritiesEntries(map) : entry.key = name).value \div 2)
    ELSE RCUTILS_LOG_SEVERITY_UNSET

HasSeparator(name) == \E i \in DOMAIN name : name[i] = RCUTILS_LOGGING_SEPARATOR_CHAR

\* name trimmed at its rightmost '.'
ParentName(name) ==
  SubSeq(name, 1,
         (CHOOSE i \in DOMAIN name :
            /\ name[i] = RCUTILS_LOGGING_SEPARATOR_CHAR
            /\ \A j \in DOMAIN name : j > i => name[j] # RCUTILS_LOGGING_SEPARATOR_CHAR) - 1)

RECURSIVE ExpectedLevel(_, _, _)
ExpectedLevel(map, default_level, name) ==
  IF StoredSeverity(map, name) # RCUTILS_LOG_SEVERITY_UNSET
    THEN StoredSeverity(map, name)
  ELSE IF HasSeparator(name)
    THEN ExpectedLevel(map, default_level, ParentName(name))
  ELSE default_level

\* What rcutils_logging_get_logger_effective_level(name) returns in this state.
EffectiveLevelNow(name) ==
  rcutils_logging_get_logger_effective_level(LoggingGlobals, name, TRUE)

\* C1: rcutils_logging_get_logger_effective_level(name) returns the level
\* stored for name if that is not UNSET, otherwise the stored level of the
\* nearest ancestor (name trimmed at its rightmost '.', repeatedly) that is
\* not UNSET, otherwise the default level.  (The severities map is valid
\* and the call's allocation did not fail.)
C1_EffectiveLevelIsNearestSetAncestor ==
  (/\ log_last.op = "get_logger_effective_level"
   /\ log_last.ret = RCUTILS_RET_OK
   /\ g_rcutils_logging_severities_map_valid) =>
    log_last.level = ExpectedLevel(g_rcutils_logging_severities_map,
                                   g_rcutils_logging_default_logger_level, log_last.name)

\* The example of the claim on the names of the model: default INFO,
\* a = WARN, a.b.b = DEBUG and nothing for a.b; a.b.b.d gets DEBUG.
C1_Witness ==
  /\ log_last.op = "get_logger_effective_level" /\ log_last.name = NameABBD
  /\ log_last.ret = RCUTILS_RET_OK
  /\ g_rcutils_logging_severities_map_valid
  /\ g_rcutils_logging_default_logger_level = RCUTILS_LOG_SEVERITY_INFO
  /\ StoredSeverity(g_rcutils_logging_severities_map, NameA) = RCUTILS_LOG_SEVERITY_WARN
  /\ StoredSeverity(g_rcutils_logging_severities_map, NameAB) = RCUTILS_LOG_SEVERITY_UNSET
  /\ StoredSeverity(g_rcutils_logging_severities_map, NameABB) = RCUTILS_LOG_SEVERITY_DEBUG
  /\ log_last.level = RCUTILS_LOG_SEVERITY_DEBUG

SetLoggerLevelReturnedOk ==
  /\ log_last.op = "set_logger_level"
  /\ log_last.ret = RCUTILS_RET_OK
  /\ log_last.end = "done"

\* C2 as stated: for every name and every level L of UNSET, DEBUG, INFO,
\* WARN, ERROR, FATAL, after rcutils_logging_set_logger_level(name, L)
\* returned RCUTILS_RET_OK the effective level of name is L.
C2_EffectiveLevelIsLevelSet ==
  SetLoggerLevelReturnedOk => EffectiveLevelNow(log_last.name) = log_last.level

\* C2: after rcutils_logging_set_logger_level(name, L) returned
\* RCUTILS_RET_OK the effective level of name is L for every L of DEBUG,
\* INFO, WARN, ERROR, FATAL; for L = UNSET it is the level name inherits:
\* the stored level of its nearest ancestor that is not UNSET, otherwise
\* the default level (UNSET itself when name is "", whose level is the
\* default level).
C2_EffectiveLevelIsLevelSetOrInherited ==
  SetLoggerLevelReturnedOk =>
    EffectiveLevelNow(log_last.name) =
      IF log_last.level # RCUTILS_LOG_SEVERITY_UNSET
        THEN log_last.level
      ELSE IF HasSeparator(log_last.name)
        THEN ExpectedLevel(g_rcutils_logging_severities_map,
                           g_rcutils_logging_default_logger_level,
                           ParentName(log_last.name))
      ELSE g_rcutils_logging_default_logger_level

\* "a.b" was given UNSET while "a" has FATAL: the effective level of "a.b"
\* is FATAL.
C2_Witness ==
  /\ SetLoggerLevelReturnedOk
  /\ log_last.name = NameAB /\ log_last.level = RCUTILS_LOG_SEVERITY_UNSET
  /\ StoredSeverity(g_rcutils_logging_severities_map, NameA) = RCUTILS_LOG_SEVERITY_FATAL
  /\ EffectiveLevelNow(NameAB) = RCUTILS_LOG_SEVERITY_FATAL

\* name.sub for some sub
IsDescendantOf(key, name) ==
  /\ Len(key) > Len(name) + 1
  /\ SubSeq(key, 1, Len(name)) = name
  /\ key[Len(name) + 1] = RCUTILS_LOGGING_SEPARATOR_CHAR

\* The descendants of name that the user gave a level other than UNSET.
UserSetDescendants(map, name) ==
  {entry.key : entry \in
     {entry \in SeveritiesEntries(map) :
        /\ IsDescendantOf(entry.key, name)
        /\ entry.value % 2 = 1
        /\ entry.value # 1}}

\* C3: a rcutils_logging_set_logger_level(name, other) that returns
\* RCUTILS_RET_OK leaves every descendant name.sub that has a user-set
\* level with it: its effective level is still that level.
C3_DescendantsKeepUserSetLevel ==
  [][(log_last'.op = "set_logger_level" /\ log_last'.ret = RCUTILS_RET_OK
        /\ log_last'.end = "done") =>
       \A key \in UserSetDescendants(g_rcutils_logging_severities_map, log_last'.name) :
         rcutils_logging_get_logger_effective_level(
           [initialized |-> g_rcutils_logging_initialized',
            map_valid |-> g_rcutils_logging_severities_map_valid',
            default_level |-> g_rcutils_logging_default_logger_level',
            map |-> g_rcutils_logging_severities_map'], key, TRUE)
           = StoredSeverity(g_rcutils_logging_severities_map, key)]_vars

\* "a" was given a level while "a.b", which the user gave DEBUG, and "a.b.b"
\* are in the map, and "a.b" still has DEBUG.
C3_Witness ==
  /\ SetLoggerLevelReturnedOk /\ log_last.name = NameA
  /\ g_rcutils_logging_severities_map.size = 3
  /\ NameAB \in UserSetDescendants(g_rcutils_logging_severities_map, NameA)
  /\ EffectiveLevelNow(NameAB) = RCUTILS_LOG_SEVERITY_DEBUG

(***************************************************************************)
(* Claims about the error state.                                           *)
(***************************************************************************)
\* What a reader of the error string is to see for the arguments written:
\* the message (as far as an error state holds it), ", at ", the file, ":"
\* and the line number in decimal.
ErrorStringFor(written) ==
  SubSeq(written.message, 1,
         IF Len(written.message) < RCUTILS_ERROR_STATE_MESSAGE_MAX_LENGTH
           THEN Len(written.message) ELSE RCUTILS_ERROR_STATE_MESSAGE_MAX_LENGTH - 1)
    \o <<44, 32, 97, 116, 32>> \o written.file \o <<58>>
    \o (IF written.line_number = 0 THEN <<48>>
        ELSE IF written.line_number = 120 THEN <<49, 50, 48>>
        ELSE rcutils_convert_uint64_t_into_c_str(written.line_number))

\* C11: within a thread, rcutils_get_error_string after
\* rcutils_set_error_state(m, f, l) gives the string of the new message m,
\* never one formatted for an earlier error, and after rcutils_reset_error
\* it gives "error not set", whatever calls came before.
C11_GetErrorStringReflectsLastSetOrReset ==
  err_last.op = "get_error_string" =>
    IF err_written[err_last.thread] = <<>>
      THEN err_last.str = <<101, 114, 114, 111, 114, 32, 110, 111, 116, 32, 115, 101, 116>>
      ELSE err_last.str = ErrorStringFor(err_written[err_last.thread][1])

\* A thread reads the string of its second message after it had read the
\* string of another one.
C11_Witness ==
  /\ err_last.op = "get_error_string"
  /\ err_written[err_last.thread] # <<>>
  /\ err_written[err_last.thread][1].message = <<102, 103>>
  /\ err_written[err_last.thread][1].line_number = 120
  /\ err_last.str = <<102, 103, 44, 32, 97, 116, 32, 97, 46, 99, 58, 49, 50, 48>>

\* C12: rcutils_set_error_state and rcutils_reset_error of one thread leave
\* what rcutils_error_is_set, rcutils_get_error_state and
\* rcutils_get_error_string return on every other thread as it was.
C12_ErrorStateIsPerThread ==
  [][\A t \in Threads, u \in Threads :
       (t # u /\ err_last'.thread = t /\ err_last'.op \in {"set_error_state", "reset_error"}) =>
         /\ rcutils_error_is_set(ErrorTls(u))' = rcutils_error_is_set(ErrorTls(u))
         /\ rcutils_get_error_state(ErrorTls(u))' = rcutils_get_error_state(ErrorTls(u))
         /\ rcutils_get_error_string(ErrorTls(u)).str' = rcutils_get_error_string(ErrorTls(u)).str]_vars

\* Thread 1 has just reset its error while thread 2 holds one, and thread 2
\* still holds it.
C12_Witness ==
  /\ err_last.op = "reset_error" /\ err_last.thread = 1
  /\ err_written[2] # <<>>
  /\ rcutils_error_is_set(ErrorTls(2))
  /\ rcutils_get_error_state(ErrorTls(2)).message = <<101>>
  /\ ~rcutils_error_is_set(ErrorTls(1))

(***************************************************************************)
(* Claims about the initialization and the shutdown of logging.            *)
(***************************************************************************)
\* The environment variables of the call that have a value other than
\* empty, 0 or 1.
InvalidEnvVars(how) ==
  {v \in {"use_stdout", "buffered_stream", "colorized_output"} : how[v] \notin {"", "0", "1"}}

\* C13: when RCUTILS_LOGGING_USE_STDOUT, RCUTILS_LOGGING_BUFFERED_STREAM or
\* RCUTILS_COLORIZED_OUTPUT has a value other than empty, 0 or 1,
\* rcutils_logging_initialize_with_allocator with a valid allocator reports
\* an error, goes on with the default for that variable and leaves logging
\* initialized.
C13_InvalidEnvStillInitializes ==
  [][(/\ ~g_rcutils_logging_initialized
      /\ log_last'.op = "initialize"
      /\ log_last'.how.allocator # "invalid"
      /\ log_last'.how.alloc_ok /\ log_last'.how.setvbuf_ok
      /\ InvalidEnvVars(log_last'.how) # {}) =>
        /\ log_last'.ret # RCUTILS_RET_OK
        /\ g_rcutils_logging_initialized'
        /\ "use_stdout" \in InvalidEnvVars(log_last'.how) => g_output_stream' = <<"stderr">>
        /\ "colorized_output" \in InvalidEnvVars(log_last'.how) =>
             g_colorized_output' = "RCUTILS_COLORIZED_OUTPUT_AUTO"]_vars

\* rcutils_logging_initialize_with_allocator has returned under
\* RCUTILS_COLORIZED_OUTPUT=2 and a valid allocator.
C13_Witness ==
  /\ log_last.op = "initialize"
  /\ log_last.how.allocator = "rcutils_get_default_allocator"
  /\ log_last.how.colorized_output = "2"
  /\ log_last.ret = RCUTILS_RET_INVALID_ARGUMENT
  /\ ~g_rcutils_logging_initialized
  /\ g_output_stream = <<"stderr">>

\* C14: rcutils_logging_initialize_with_allocator called while logging is
\* initialized returns OK and changes nothing of the logging state
\* (allocator, default level, output handler, stream, colorization,
\* severities map, handlers), whatever allocator is passed.
C14_InitializeWhenInitializedChangesNothing ==
  [][(g_rcutils_logging_initialized /\ log_last'.op = "initialize" /\ log_last' # log_last) =>
        /\ log_last'.ret = RCUTILS_RET_OK
        /\ UNCHANGED <<g_rcutils_logging_initialized, g_rcutils_logging_severities_map_valid,
                       g_rcutils_logging_default_logger_level, g_rcutils_logging_severities_map,
                       g_rcutils_logging_allocator, g_rcutils_logging_output_handler,
                       g_output_stream, g_colorized_output, g_num_log_msg_handlers>>]_vars

\* Initialized with the default allocator, stderr and a logger level set,
\* logging has been initialized again with another allocator and
\* RCUTILS_LOGGING_USE_STDOUT=1.
C14_Witness ==
  /\ log_last.op = "initialize"
  /\ log_last.how.allocator = "custom allocator"
  /\ log_last.how.use_stdout = "1"
  /\ log_last.ret = RCUTILS_RET_OK
  /\ g_rcutils_logging_initialized
  /\ g_rcutils_logging_allocator = "rcutils_get_default_allocator"
  /\ g_output_stream = <<"stderr">>
  /\ g_rcutils_logging_severities_map.size = 1

\* C15: rcutils_logging_shutdown on initialized logging, after any calls
\* of rcutils_logging_set_logger_level, returns with every key removed from
\* the severities map, the map finalized, no handlers and logging
\* uninitialized; the initialization that follows starts without logger
\* levels and with the default level INFO.
C15_ShutdownEmptiesAndUninitializes ==
  [][/\ (g_rcutils_logging_initialized /\ log_last'.op = "shutdown") =>
          /\ log_last'.end = "done"
          /\ g_rcutils_logging_severities_map' = rcutils_get_zero_initialized_hash_map
          /\ ~g_rcutils_logging_severities_map_valid'
          /\ g_num_log_msg_handlers' = 0
          /\ ~g_rcutils_logging_initialized'
     /\ (/\ ~g_rcutils_logging_initialized
         /\ log_last'.op = "initialize" /\ log_last'.ret = RCUTILS_RET_OK) =>
          /\ g_rcutils_logging_severities_map'.size = 0
          /\ g_rcutils_logging_default_logger_level' = RCUTILS_DEFAULT_LOGGER_DEFAULT_LEVEL]_vars

\* A shutdown of logging that was initialized has returned.
C15_Witness ==
  /\ log_last.op = "shutdown" /\ log_last.end = "done" /\ log_last.ret = RCUTILS_RET_OK
  /\ ~g_rcutils_logging_initialized
  /\ g_rcutils_logging_output_handler # NULL
  /\ g_rcutils_logging_severities_map = rcutils_get_zero_initialized_hash_map

(***************************************************************************)
(* C16: calling fini on an array list or a hash map whose impl pointer is  *)
(* null (zero initialised, or finalised before) is a no-op that returns    *)
(* success: the call returns RCUTILS_RET_OK and leaves the container as    *)
(* it was.  A fini call is the step that makes "fini" the last call or     *)
(* changes what the last fini returned.                                    *)
(***************************************************************************)
C16_FiniOnNullImplIsNoOpSuccess ==
  [][/\ (al_last' # al_last /\ al_last'.op = "fini" /\ ~array_list.impl)
          => (al_last'.ret = RCUTILS_RET_OK /\ array_list' = array_list)
     /\ (hm_last' # hm_last /\ hm_last'.op = "fini" /\ ~hash_map.impl)
          => (hm_last'.ret = RCUTILS_RET_OK /\ hash_map' = hash_map)]_vars

\* fini has been called on an array list whose impl was null, after an init
\* that succeeded and a fini that released it
C16_Witness ==
  /\ al_last.op = "fini"
  /\ al_last.ret # RCUTILS_RET_OK
  /\ ~array_list.impl
  /\ hm_last.op = "fini"
  /\ ~hash_map.impl

(***************************************************************************)
(* C17: when resize(new_size) with new_size > 0 is called on a char array  *)
(* or uint8 array that owns its buffer and the reallocation fails, resize  *)
(* returns RCUTILS_RET_BAD_ALLOC and the buffer the array had is still     *)
(* allocated.  The reallocation is made when the allocator is valid and    *)
(* new_size differs from the capacity.                                     *)
(***************************************************************************)
C17_ResizeFailureKeepsBuffer ==
  LET ReallocationFailed(owned) ==
        /\ owned
        /\ buf_last.outcome = "fail"
        /\ buf_last.new_size > 0
        /\ buf_last.new_size # buf_last.before.buffer_capacity
        /\ buf_last.before.allocator = "valid"
      BufferKept ==
        /\ buf_last.ret = RCUTILS_RET_BAD_ALLOC
        /\ buf_last.before.buffer # NULL => heap[buf_last.before.buffer[1]] = "allocated"
  IN /\ (buf_last.op = "char_array_resize" /\ ReallocationFailed(buf_last.before.owns_buffer))
          => BufferKept
     /\ (buf_last.op = "uint8_array_resize" /\ ReallocationFailed(TRUE)) => BufferKept

\* a resize of a char array that owned an allocated buffer has just failed
\* to reallocate it
C17_Witness ==
  /\ buf_last.op = "char_array_resize"
  /\ buf_last.outcome = "fail"
  /\ buf_last.new_size > 0
  /\ buf_last.before.owns_buffer
  /\ buf_last.before.buffer # NULL
  /\ buf_last.ret = RCUTILS_RET_BAD_ALLOC

(***************************************************************************)
(* C18: rcutils_string_map_reserve(map, c) with c smaller than the         *)
(* capacity never drops a pair: every key the map held before the call it  *)
(* holds afterwards with the same value, and when the call returns         *)
(* RCUTILS_RET_OK the capacity is max(c, size).                            *)
(***************************************************************************)
C18_ReserveSmallerKeepsPairs ==
  (sm_last.op = "reserve" /\ sm_last.before.impl
     /\ sm_last.capacity < sm_last.before.capacity)
    => /\ \A key \in StringKeys :
            rcutils_string_map_get(sm_last.before, key) # NULL
              => rcutils_string_map_get(string_map, key)
                   = rcutils_string_map_get(sm_last.before, key)
       /\ sm_last.ret = RCUTILS_RET_OK
            => string_map.capacity = IF sm_last.capacity > sm_last.before.size
                                       THEN sm_last.capacity ELSE sm_last.before.size

\* reserve has made a map that holds a pair smaller
C18_Witness ==
  /\ sm_last.op = "reserve"
  /\ sm_last.ret = RCUTILS_RET_OK
  /\ sm_last.before.impl
  /\ sm_last.before.size > 0
  /\ string_map.capacity < sm_last.before.capacity

(***************************************************************************)
(* C19: when growing the map fails inside rcutils_hash_map_set, the call   *)
(* still returns RCUTILS_RET_OK, the entry set is stored, and every key    *)
(* that could be retrieved before the call can be retrieved after it with  *)
(* the same value, as can the key just set with its new value.             *)
(***************************************************************************)
C19_GrowFailureIsNotFatal ==
  [][(hm_last'.op = "set" /\ hm_last'.grow.attempted
        /\ hm_last'.grow.ret # RCUTILS_RET_OK)
       => /\ hm_last'.ret = RCUTILS_RET_OK
          /\ rcutils_hash_map_get(hash_map', hm_last'.key)
               = [ret |-> RCUTILS_RET_OK, data |-> hm_last'.data]
          /\ \A k \in Keys \ {hm_last'.key} :
               rcutils_hash_map_get(hash_map, k).ret = RCUTILS_RET_OK
                 => rcutils_hash_map_get(hash_map', k) = rcutils_hash_map_get(hash_map, k)
    ]_vars

\* a set has failed to grow a map that holds another key besides the one set
C19_Witness ==
  /\ hm_last.op = "set"
  /\ hm_last.grow.attempted
  /\ hm_last.grow.ret = RCUTILS_RET_BAD_ALLOC
  /\ hm_last.ret = RCUTILS_RET_OK
  /\ hash_map.size >= 2
  /\ rcutils_hash_map_get(hash_map, hm_last.key).data = hm_last.data

(***************************************************************************)
(* C20, as the code has it: right after a rcutils_hash_map_set call that   *)
(* returns RCUTILS_RET_OK, either size / capacity <= 0.75 or the call      *)
(* started to grow the map (to double its capacity).                       *)
(***************************************************************************)
C20_LoadFactorOrGrowAfterSuccessfulSet ==
  (hm_last.op = "set" /\ hm_last.ret = RCUTILS_RET_OK)
    => (4 * hash_map.size <= 3 * hash_map.capacity \/ hm_last.grow.attempted)

\* C20 as stated: the same after any rcutils_hash_map_set call on an
\* initialised map, whatever it returns
C20_LoadFactorOrGrowAfterAnySet ==
  (hm_last.op = "set" /\ hash_map.impl)
    => (4 * hash_map.size <= 3 * hash_map.capacity \/ hm_last.grow.attempted)

\* a set has returned OK and left the map above the load factor, having
\* tried to grow it
C20_Witness ==
  /\ hm_last.op = "set"
  /\ hm_last.ret = RCUTILS_RET_OK
  /\ hm_last.grow.attempted
  /\ 4 * hash_map.size > 3 * hash_map.capacity

(***************************************************************************)
(* C21: after a successful init with an initial capacity >= 1 and any      *)
(* set and unset calls, the capacity that rcutils_hash_map_get_capacity    *)
(* reports is a power of two, is at least the initial capacity rounded up  *)
(* to the next power of two, and never decreases.  Stated over the steps:  *)
(* a successful init leaves the least power of two that is not below the   *)
(* initial capacity, and every call on an initialised map leaves a power   *)
(* of two that is not below the capacity before.                           *)
(***************************************************************************)
C21_CapacityIsGrowingPowerOfTwo ==
  [][LET IsPowerOfTwo(n) == \E e \in 0..16 : n = 2 ^ e
         Capacity(hm) == rcutils_hash_map_get_capacity(hm).capacity
     IN /\ hash_map'.impl => IsPowerOfTwo(Capacity(hash_map'))
        /\ (~hash_map.impl /\ hash_map'.impl)
             => /\ hm_last'.op = "init"
                /\ Capacity(hash_map') >= hm_last'.data[1]
                /\ Capacity(hash_map') < 2 * hm_last'.data[1]
        /\ (hash_map.impl /\ hash_map'.impl)
             => Capacity(hash_map') >= Capacity(hash_map)
    ]_vars

\* a map initialised with a capacity that is no power of two has grown
C21_Witness ==
  /\ hash_map.impl
  /\ hm_last.op = "set"
  /\ hm_last.grow.attempted
  /\ hm_last.grow.ret = RCUTILS_RET_OK
  /\ rcutils_hash_map_get_capacity(hash_map).capacity = 8

C23_StrcatTwiceConcatenates ==
  [][(/\ buf_last.op = "char_array_strcat"
      /\ buf_last.ret = RCUTILS_RET_OK
      /\ buf_last.before.buffer_length = 0
      /\ buf_last'.op = "char_array_strcat"
      /\ buf_last'.ret = RCUTILS_RET_OK
      /\ buf_last'.before = char_array)
       => /\ char_array'.buffer_length = Len(buf_last.src) + Len(buf_last'.src) + 1
          /\ char_array'.buffer_length <= char_array'.buffer_capacity
          /\ SubSeq(char_array'.bytes, 1, char_array'.buffer_length)
               = buf_last.src \o buf_last'.src \o <<0>>
          /\ \A i \in 1..(char_array'.buffer_length - 1) : char_array'.bytes[i] # 0
     ]_vars

\* "a" was appended to an empty array that borrowed a buffer of 2 bytes,
\* and then "bc", which made the array allocate a buffer of its own
C23_Witness ==
  /\ buf_last.op = "char_array_strcat"
  /\ buf_last.ret = RCUTILS_RET_OK
  /\ buf_last.src = <<98, 99>>
  /\ buf_last.before.buffer_length = 2
  /\ ~buf_last.before.owns_buffer
  /\ buf_last.before.bytes = <<97, 0>>
  /\ char_array.owns_buffer
  /\ char_array.bytes = <<97, 98, 99, 0>>

(***************************************************************************)
(* C24: for an array list of size s and an index i < s, remove(i) leaves   *)
(* the elements 0..i-1 unchanged, makes element j the former element j+1   *)
(* for every i <= j < s-1, decrements the size to s-1 and leaves the       *)
(* capacity unchanged.  Element j of the code is list[j + 1].              *)
(***************************************************************************)
C24_RemoveShiftsLeft ==
  (al_last.op = "remove" /\ al_last.index < Len(al_last.before.list))
    => /\ al_last.ret = RCUTILS_RET_OK
       /\ Len(array_list.list) = Len(al_last.before.list) - 1
       /\ \A j \in 0..(al_last.index - 1) : array_list.list[j + 1] = al_last.before.list[j + 1]
       /\ \A j \in al_last.index..(Len(al_last.before.list) - 2) :
            array_list.list[j + 1] = al_last.before.list[j + 2]
       /\ array_list.capacity = al_last.before.capacity

\* remove(0) on a list of three elements, the last two of which differ:
\* two elements are moved, and source and destination of the memcpy overlap
C24_Witness ==
  /\ al_last.op = "remove"
  /\ al_last.ret = RCUTILS_RET_OK
  /\ al_last.index = 0
  /\ Len(al_last.before.list) = 3
  /\ al_last.before.list[2] # al_last.before.list[3]
  /\ Len(array_list.list) = 2

(***************************************************************************)
(* C25: rcutils_unload_shared_library on a loaded handle always clears the *)
(* handle: lib_pointer and library_path are null and the allocator is zero *)
(* initialised, so rcutils_is_shared_library_loaded is false afterwards.   *)
(* This holds also when dlclose fails, and then the call returns           *)
(* RCUTILS_RET_ERROR with an error message set.                            *)
(***************************************************************************)
C25_UnloadAlwaysClears ==
  (sl_last.op = "unload" /\ rcutils_is_shared_library_loaded(sl_last.before))
    => /\ shared_library = rcutils_get_zero_initialized_shared_library
       /\ ~rcutils_is_shared_library_loaded(shared_library)
       /\ sl_last.ret \in {RCUTILS_RET_OK, RCUTILS_RET_ERROR}
       /\ sl_last.ret = RCUTILS_RET_ERROR <=> sl_last.error_msg = "dlclose error"

\* an unload of a loaded library whose dlclose failed: the linker still
\* holds the handle open
C25_Witness ==
  /\ sl_last.op = "unload"
  /\ rcutils_is_shared_library_loaded(sl_last.before)
  /\ sl_last.ret = RCUTILS_RET_ERROR
  /\ sl_last.before.lib_pointer[1] \in dl_open
  /\ ~rcutils_is_shared_library_loaded(shared_library)

(***************************************************************************)
(* C26: whenever rcutils_reallocf(ptr, size, allocator) returns null, the  *)
(* original pointer ptr has been freed.  As stated, for every allocator    *)
(* passed.                                                                 *)
(***************************************************************************)
C26_NullMeansFreed ==
  (ra_last.op = "reallocf" /\ ra_last.returned = NULL /\ ra_last.before # NULL)
    => heap[ra_last.before[1]] = "released"

(***************************************************************************)
(* C26, amended: whenever rcutils_reallocf(ptr, size, allocator) returns   *)
(* null and the allocator is valid, the original pointer ptr has been      *)
(* freed; with an invalid allocator it returns null and ptr is still       *)
(* allocated.                                                              *)
(***************************************************************************)
C26_NullMeansFreedIfAllocatorValid ==
  (ra_last.op = "reallocf" /\ ra_last.returned = NULL /\ ra_last.before # NULL)
    => IF ra_last.allocator = "valid"
         THEN heap[ra_last.before[1]] = "released"
         ELSE heap[ra_last.before[1]] = "allocated"

\* a reallocation of an allocated block failed with a valid allocator
C26_Witness ==
  /\ ra_last.op = "reallocf"
  /\ ra_last.allocator = "valid"
  /\ ra_last.outcome = "fail"
  /\ ra_last.before # NULL
  /\ ra_last.returned = NULL
  /\ heap[ra_last.before[1]] = "released"

(***************************************************************************)
(* C27: provided rcutils_fault_injection_set_count is called only finitely *)
(* often, every invocation of _rcutils_fault_injection_maybe_fail that     *)
(* entered its compare-exchange loop returns, whatever the other threads'  *)
(* maybe_fail calls do in between.                                         *)
(***************************************************************************)
C27_MaybeFailReturns ==
  (<>[][~SetCount]_vars)
    => \A t \in Threads : (fi_pc[t] = "cas") ~> (fi_pc[t] = "idle")

\* a thread is inside the loop with a count another thread's decrement
\* made stale: its next compare-exchange fails and it retries
C27_Witness ==
  \E t \in Threads :
    /\ fi_pc[t] = "cas"
    /\ fi_current[t] = g_rcutils_fault_injection_count + 1
    /\ epoch_rets # <<>>
    /\ g_rcutils_fault_injection_count > RCUTILS_FAULT_INJECTION_NEVER_FAIL

(***************************************************************************)
(* C28: after any sequence of logging operations every value stored in the *)
(* severities map has bit 0 set and, with bit 0 masked out, is one of 0,   *)
(* 10, 20, 30, 40, 50: no entry with bit 0 clear is ever present.          *)
(***************************************************************************)
C28_StoredValuesAreUserSet ==
  \A entry \in SeveritiesEntries(g_rcutils_logging_severities_map) :
    /\ entry.value % 2 = 1
    /\ SeverityOf(entry.value) \in {0, 10, 20, 30, 40, 50}

\* the map holds UNSET for "" and FATAL for "a", both with the marker bit
C28_Witness ==
  /\ \E entry \in SeveritiesEntries(g_rcutils_logging_severities_map) :
       entry.key = NameRoot /\ entry.value = 1
  /\ \E entry \in SeveritiesEntries(g_rcutils_logging_severities_map) :
       entry.key = NameA /\ entry.value = 51
  /\ log_last.op = "get_logger_effective_level"

(***************************************************************************)
(* C29: the default logger level is never UNSET: once logging is           *)
(* initialised, after any sequence of set_default_logger_level(l) and      *)
(* set_logger_level(name, l) calls, also with name "" and l UNSET,         *)
(* get_default_logger_level returns one of DEBUG, INFO, WARN, ERROR,       *)
(* FATAL.                                                                  *)
(***************************************************************************)
C29_DefaultLevelNeverUnset ==
  g_rcutils_logging_initialized
    => rcutils_logging_get_default_logger_level(LoggingGlobals)
         \in {RCUTILS_LOG_SEVERITY_DEBUG, RCUTILS_LOG_SEVERITY_INFO, RCUTILS_LOG_SEVERITY_WARN,
              RCUTILS_LOG_SEVERITY_ERROR, RCUTILS_LOG_SEVERITY_FATAL}

\* set_logger_level("", UNSET) has returned RCUTILS_RET_OK
C29_Witness ==
  /\ g_rcutils_logging_initialized
  /\ log_last.op = "set_logger_level"
  /\ log_last.name = NameRoot
  /\ log_last.level = RCUTILS_LOG_SEVERITY_UNSET
  /\ log_last.ret = RCUTILS_RET_OK

(***************************************************************************)
(* C30: after any sequence of string map operations the size that          *)
(* rcutils_string_map_get_size reports is the number of slots that hold a  *)
(* non-null key and is at most the capacity, so that                       *)
(* rcutils_string_map_set_no_resize returns RCUTILS_RET_NOT_ENOUGH_SPACE   *)
(* only when no slot is free.                                              *)
(***************************************************************************)
C30_SizeCountsOccupiedSlots ==
  LET OccupiedSlots(sm) == {i \in 1..sm.capacity : sm.key_value_pairs[i].key # NULL}
  IN /\ string_map.impl
          => /\ rcutils_string_map_get_size(string_map).size
                  = Cardinality(OccupiedSlots(string_map))
             /\ rcutils_string_map_get_size(string_map).size <= string_map.capacity
     /\ (sm_last.op = "set_no_resize" /\ sm_last.ret = RCUTILS_RET_NOT_ENOUGH_SPACE)
          => Cardinality(OccupiedSlots(sm_last.before)) = sm_last.before.capacity

\* set_no_resize has found no room for a new key in a map of two slots
C30_Witness ==
  /\ sm_last.op = "set_no_resize"
  /\ sm_last.ret = RCUTILS_RET_NOT_ENOUGH_SPACE
  /\ sm_last.before.capacity = 2
  /\ rcutils_string_map_get(sm_last.before, sm_last.key) = NULL

====
